---- MODULE Spec2Model ----
(***************************************************************************)
(* A model of the DOCX engine of commentopolis: the package reader and     *)
(* comment threader (utils/docxParser.ts), the numbering counters          *)
(* (utils/numbering.ts) and the content transformer                        *)
(* (utils/docxHtmlTransformer.ts).                                         *)
(*                                                                         *)
(* Values.  A JavaScript string is a TLA+ string when it is only compared, *)
(* and a sequence of one-character strings when the code trims or splits   *)
(* it.  `undefined` is the string Undefined for string-valued fields and   *)
(* the empty sequence None for object-valued fields (Some(x) == <<x>>).    *)
(* A JavaScript Map or plain object keyed by strings is a function whose   *)
(* domain is the set of keys.  An XML part is [status, payload]: payload   *)
(* is the list of records its elements hold, status says whether the zip   *)
(* entry exists, decompresses and parses.                                  *)
(***************************************************************************)
EXTENDS Integers, Sequences, FiniteSets, TLC

VARIABLES
  pkg,          \* the .docx package handed to parseDocxComments (the input)
  result,       \* the DocxParseResult of the latest parseDocxComments call
  prevResult,   \* the DocxParseResult of the call before it
  parses,       \* how many times the package has been parsed
  counters,     \* context.numbering.counters of the latest transformation pass
  lastInc,      \* the latest incrementCounter call: arguments, counter before and after
  content,      \* the TransformedContent of the latest transformDocumentToHtml call
  prevContent,  \* the TransformedContent of the call before it
  passes,       \* how many times the document has been transformed
  resolved,     \* the latest resolution of a style id against the style catalog
  revision,     \* the node handed to extractRevisionInfo and what the call returned
  jobs,         \* the parseDocxComments calls in flight, one per document
  hook          \* the state of the useDocuments hook and its pending calls

parseVars == <<pkg, result, prevResult, parses>>
passVars == <<content, prevContent, passes>>
appVars == <<resolved, revision, jobs, hook>>
vars == <<pkg, result, prevResult, parses, counters, lastInc, content, prevContent, passes,
          resolved, revision, jobs, hook>>

(***************************************************************************)
(* Bounds of the model.                                                    *)
(***************************************************************************)
MaxComments == 3     \* comment records in comments.xml
MaxExt == 2          \* commentEx records in commentsExtended.xml
MaxParses == 2       \* parses of one package
MaxBadParts == 2     \* parts of one package that are not readable XML
MaxLevel == 2        \* numbering levels 0..MaxLevel
MaxCount == 3        \* incrementCounter calls on one level of one counter
MaxParas == 3        \* children of the document body
MaxPasses == 2       \* transformation passes over one document
MaxUploads == 2      \* documents accepted by addDocument
MaxDepth == 3        \* ancestors of a node up to the document root
MaxNotes == 2        \* note elements in footnotes.xml
MaxCalls == 3        \* calls of selection callbacks between two renders
MaxListParas == 2    \* paragraphs of a body of list paragraphs

Undefined == "undefined"
None == <<>>
Some(x) == <<x>>

DocumentId == "doc1"
ParaIds == {"pA", "pB"}
Whitespace == {" ", "\n"}

(***************************************************************************)
(* String helpers: String.prototype.trim and Array.prototype.join on       *)
(* character sequences.                                                    *)
(***************************************************************************)
RECURSIVE TrimStart(_)
TrimStart(s) ==
  IF s = <<>> THEN <<>>
  ELSE IF Head(s) \in Whitespace THEN TrimStart(Tail(s)) ELSE s

RECURSIVE TrimEnd(_)
TrimEnd(s) ==
  IF s = <<>> THEN <<>>
  ELSE IF s[Len(s)] \in Whitespace THEN TrimEnd(SubSeq(s, 1, Len(s) - 1)) ELSE s

Trim(s) == TrimEnd(TrimStart(s))

RECURSIVE Join(_, _)
Join(parts, sep) ==
  IF parts = <<>> THEN <<>>
  ELSE IF Len(parts) = 1 THEN parts[1]
  ELSE parts[1] \o sep \o Join(Tail(parts), sep)

RECURSIVE Flatten(_)
Flatten(seqs) == IF seqs = <<>> THEN <<>> ELSE Head(seqs) \o Flatten(Tail(seqs))

RECURSIVE NonBlank(_)
NonBlank(texts) ==
  IF texts = <<>> THEN <<>>
  ELSE (IF Trim(Head(texts)) # <<>> THEN <<Head(texts)>> ELSE <<>>) \o NonBlank(Tail(texts))

EmptyMap == [k \in {} |-> Undefined]
MapSet(m, k, v) == [x \in (DOMAIN m) \cup {k} |-> IF x = k THEN v ELSE m[x]]
MapHas(m, k) == k \in DOMAIN m

(***************************************************************************)
(* The package.                                                            *)
(***************************************************************************)
PartKeys ==
  {"document", "styles", "numbering", "comments",
   "commentsExtended", "commentsIds", "footnotes", "endnotes"}
OptionalParts == PartKeys \ {"document"}

\* absent: no zip entry.  corrupt: the entry exists and zipFile.async rejects.
\* empty: the entry decodes to "".  malformed: DOMParser reports parsererror.
PartStatus == {"absent", "corrupt", "empty", "malformed", "ok"}

\* zipFile.async('text') of one entry; Undefined is the `content: null` of
\* a missing or unreadable entry.
ExtractContent(part) ==
  IF part.status \in {"absent", "corrupt"} THEN Undefined
  ELSE IF part.status = "empty" THEN "" ELSE "xml"

\* A parser that hands back the document of a malformed part as it stands.
parseXmlToDomUnchecked(part) == ExtractContent(part) \notin {Undefined, ""}

\* `if (content)` and then parseXmlToDom(content, path) yields a Document.
parseXmlToDom(part) ==
  /\ ExtractContent(part) \notin {Undefined, ""}
  /\ part.status = "ok"

(***************************************************************************)
(* parseCommentsXml: the flat comment records.                             *)
(***************************************************************************)
\* runContent.trim() of each paragraph, kept when non-empty.
RECURSIVE ParagraphTexts(_)
ParagraphTexts(paras) ==
  IF paras = <<>> THEN <<>>
  ELSE (IF Trim(Head(paras).text) # <<>> THEN <<Trim(Head(paras).text)>> ELSE <<>>)
       \o ParagraphTexts(Tail(paras))

HtmlOfTexts(texts) == [i \in 1..Len(texts) |-> <<"<p>", texts[i], "</p>">>]

LastParaId(paras) ==
  IF Len(paras) > 0 /\ paras[Len(paras)].paraId # ""
  THEN paras[Len(paras)].paraId ELSE Undefined

CommentOfElement(raw, index, documentId) ==
  LET id == IF raw.id # "" THEN raw.id ELSE "comment-" \o ToString(index)
      texts == ParagraphTexts(raw.paras)
  IN  [id |-> <<documentId, id>>,
       paraId |-> LastParaId(raw.paras),
       plainText |-> Join(texts, <<" ">>),
       content |-> HtmlOfTexts(texts),
       documentId |-> documentId,
       enhanced |-> FALSE,
       durableId |-> Undefined,
       done |-> FALSE,
       parentId |-> Undefined,
       children |-> <<>>]

\* A push without the text test.
CommentKeptAlways(raw) == TRUE

\* `if (content && plainText) comments.push(...)`
CommentKept(raw) == ParagraphTexts(raw.paras) # <<>>

RECURSIVE parseCommentsFrom(_, _, _)
parseCommentsFrom(raws, i, documentId) ==
  IF i > Len(raws) THEN <<>>
  ELSE (IF CommentKept(raws[i])
        THEN <<CommentOfElement(raws[i], i - 1, documentId)>> ELSE <<>>)
       \o parseCommentsFrom(raws, i + 1, documentId)

parseCommentsXml(part, documentId) ==
  IF ~parseXmlToDom(part) THEN <<>>
  ELSE parseCommentsFrom(part.payload, 1, documentId)

(***************************************************************************)
(* parseCommentsIdsXml and parseCommentsExtendedXml.                       *)
(***************************************************************************)
RECURSIVE DurableIdsOf(_, _)
DurableIdsOf(recs, n) ==
  IF n = 0 THEN EmptyMap
  ELSE LET m == DurableIdsOf(recs, n - 1)
           r == recs[n]
       IN  IF r.paraId # "" /\ r.durableId # "" THEN MapSet(m, r.paraId, r.durableId)
           ELSE m

parseCommentsIdsXml(part) ==
  IF ~parseXmlToDom(part) THEN EmptyMap
  ELSE DurableIdsOf(part.payload, Len(part.payload))

\* The data object of one commentEx element; an absent attribute is "".
ExtendedDataOf(r) ==
  [hasDone |-> r.done # "",
   done |-> r.done \in {"1", "true", "yes"},
   parentId |-> IF r.parent # "" THEN r.parent ELSE Undefined]

RECURSIVE ExtendedOf(_, _)
ExtendedOf(recs, n) ==
  IF n = 0 THEN EmptyMap
  ELSE LET m == ExtendedOf(recs, n - 1)
           r == recs[n]
           data == ExtendedDataOf(r)
       IN  IF r.paraId = "" THEN m
           ELSE IF data.hasDone \/ data.parentId # Undefined
                THEN MapSet(m, r.paraId, data) ELSE m

parseCommentsExtendedXml(part) ==
  IF ~parseXmlToDom(part) THEN EmptyMap
  ELSE ExtendedOf(part.payload, Len(part.payload))

(***************************************************************************)
(* enhanceCommentsWithExtendedData: the threading pass.                    *)
(***************************************************************************)
\* First pass, one comment: the spread copy with durableId, done, parentId
\* and a fresh children array.
EnhancedComment(comment, extendedData, durableIds) ==
  LET hasExtended == comment.paraId # Undefined /\ MapHas(extendedData, comment.paraId)
      hasDurable == comment.paraId # Undefined /\ MapHas(durableIds, comment.paraId)
  IN  [comment EXCEPT
         !.enhanced = TRUE,
         !.durableId = IF hasDurable THEN durableIds[comment.paraId] ELSE Undefined,
         !.done = hasExtended /\ extendedData[comment.paraId].hasDone
                              /\ extendedData[comment.paraId].done,
         !.parentId = IF hasExtended THEN extendedData[comment.paraId].parentId
                      ELSE Undefined,
         !.children = <<>>]

\* A map that keeps the first comment stored under a paraId.
CommentMapFirstWins(enhanced) ==
  [k \in {enhanced[i].paraId : i \in 1..Len(enhanced)} \ {Undefined} |->
     CHOOSE i \in 1..Len(enhanced) :
       /\ enhanced[i].paraId = k
       /\ \A j \in 1..Len(enhanced) : enhanced[j].paraId = k => j >= i]

\* commentMap after the first pass: paraId -> position of the comment object
\* stored under it.  Map.set overwrites, so the last comment with a paraId
\* is the one the map holds.
CommentMapOf(enhanced) ==
  [k \in {enhanced[i].paraId : i \in 1..Len(enhanced)} \ {Undefined} |->
     CHOOSE i \in 1..Len(enhanced) :
       /\ enhanced[i].paraId = k
       /\ \A j \in 1..Len(enhanced) : enhanced[j].paraId = k => j <= i]

\* A second pass that hands a comment whose parent is not in the map to the
\* first comment.
RECURSIVE LinkChildrenAdoptOrphans(_, _, _)
LinkChildrenAdoptOrphans(enhanced, commentMap, n) ==
  IF n = 0 THEN enhanced
  ELSE LET linked == LinkChildrenAdoptOrphans(enhanced, commentMap, n - 1)
           comment == enhanced[n]
       IN  IF comment.parentId # Undefined /\ comment.paraId # Undefined
           THEN [linked EXCEPT ![IF MapHas(commentMap, comment.parentId)
                                 THEN commentMap[comment.parentId] ELSE 1].children =
                                  Append(@, comment.paraId)]
           ELSE linked

\* Second pass over the first n comments: push the comment's paraId on the
\* children of the comment the map holds under its parentId.
RECURSIVE LinkChildren(_, _, _)
LinkChildren(enhanced, commentMap, n) ==
  IF n = 0 THEN enhanced
  ELSE LET linked == LinkChildren(enhanced, commentMap, n - 1)
           comment == enhanced[n]
       IN  IF /\ comment.parentId # Undefined
              /\ comment.paraId # Undefined
              /\ MapHas(commentMap, comment.parentId)
           THEN [linked EXCEPT ![commentMap[comment.parentId]].children =
                                  Append(@, comment.paraId)]
           ELSE linked

enhanceCommentsWithExtendedData(comments, extendedData, durableIds) ==
  LET enhanced == [i \in 1..Len(comments) |->
                     EnhancedComment(comments[i], extendedData, durableIds)]
  IN  LinkChildren(enhanced, CommentMapOf(enhanced), Len(enhanced))

(***************************************************************************)
(* parseFootnotesEndnotesXml.  A note id is the list of its '-'-separated  *)
(* segments, so that `${documentId}-${type}-${id}` is a concatenation and  *)
(* split('-').pop() is the last segment.                                   *)
(***************************************************************************)
NoteOfElement(raw, index, documentId, type) ==
  LET id == IF raw.id # <<>> THEN raw.id ELSE <<type, ToString(index)>>
      texts == ParagraphTexts(raw.paras)
  IN  [id |-> <<documentId, type>> \o id,
       type |-> type,
       content |-> HtmlOfTexts(texts),
       plainText |-> Join(texts, <<" ">>),
       documentId |-> documentId,
       noteType |-> IF raw.type # "" THEN raw.type ELSE "normal"]

NoteKept(raw) ==
  /\ raw.type \notin {"separator", "continuationSeparator"}
  /\ ParagraphTexts(raw.paras) # <<>>

RECURSIVE parseNotesFrom(_, _, _, _)
parseNotesFrom(raws, i, documentId, type) ==
  IF i > Len(raws) THEN <<>>
  ELSE (IF NoteKept(raws[i])
        THEN <<NoteOfElement(raws[i], i - 1, documentId, type)>> ELSE <<>>)
       \o parseNotesFrom(raws, i + 1, documentId, type)

parseFootnotesEndnotesXml(part, documentId, type) ==
  IF ~parseXmlToDom(part) THEN <<>>
  ELSE parseNotesFrom(part.payload, 1, documentId, type)

(***************************************************************************)
(* utils/numbering.ts: the counters of one transformation pass.            *)
(***************************************************************************)
Levels == 0..MaxLevel
DefaultStart == 0

createNumberingCounters == EmptyMap

NewCounter(starts) == [counters |-> starts, starts |-> starts]

getOrCreateCounter(ctrs, numId) ==
  IF MapHas(ctrs, numId) THEN ctrs[numId]
  ELSE NewCounter([l \in Levels |-> DefaultStart])

\* An increment that leaves the deeper levels where they are.
incrementCounterKeepDeeper(counter, level) ==
  [counter |-> [counter EXCEPT !.counters[level] = @ + 1],
   value |-> counter.counters[level] + 1]

\* Level `level` goes up by one, every deeper level goes back to its start.
\* [counter, value]: the counter as the call leaves it and the value returned.
incrementCounter(counter, level) ==
  LET next == [l \in Levels |->
                 IF l = level THEN counter.counters[l] + 1
                 ELSE IF l > level THEN counter.starts[l]
                 ELSE counter.counters[l]]
  IN  [counter |-> [counter EXCEPT !.counters = next], value |-> next[level]]

LowerLetters == <<"a", "b", "c", "d", "e", "f", "g", "h">>
UpperLetters == <<"A", "B", "C", "D", "E", "F", "G", "H">>
LowerRomans == <<"i", "ii", "iii", "iv", "v", "vi", "vii", "viii">>
UpperRomans == <<"I", "II", "III", "IV", "V", "VI", "VII", "VIII">>

getNumberingText(n, scheme) ==
  CASE scheme = "bullet" -> "*"
    [] scheme = "lowerLetter" /\ n \in DOMAIN LowerLetters -> LowerLetters[n]
    [] scheme = "upperLetter" /\ n \in DOMAIN UpperLetters -> UpperLetters[n]
    [] scheme = "lowerRoman" /\ n \in DOMAIN LowerRomans -> LowerRomans[n]
    [] scheme = "upperRoman" /\ n \in DOMAIN UpperRomans -> UpperRomans[n]
    [] OTHER -> ToString(n)

(***************************************************************************)
(* utils/docxHtmlTransformer.ts.  html is the list of its top-level        *)
(* blocks (joined by newlines in the code), a block is a record.           *)
(***************************************************************************)
OriginalId(note) == note.id[Len(note.id)]

RECURSIVE NoteMapOf(_, _)
NoteMapOf(notes, n) ==
  IF n = 0 THEN EmptyMap
  ELSE MapSet(NoteMapOf(notes, n - 1), OriginalId(notes[n]), notes[n])

createNoteContext(footnotes, endnotes) ==
  [footnotes |-> NoteMapOf(footnotes, Len(footnotes)),
   endnotes |-> NoteMapOf(endnotes, Len(endnotes))]

(***************************************************************************)
(* Run properties.  An rPr element is the record of its child elements:    *)
(* Absent for no element, "" for an element without w:val, or the val.     *)
(* RunProperties is a function over its fields, Undefined where not set.   *)
(***************************************************************************)
Absent == "<absent>"
True == "<true>"
RPrElements ==
  {"rStyle", "b", "i", "u", "sz", "color", "rFonts", "highlight", "strike",
   "dstrike", "caps", "smallCaps", "vertAlign"}
RunFields ==
  {"bold", "italic", "underline", "fontSize", "color", "fontFamily", "highlight",
   "strikethrough", "doubleStrikethrough", "allCaps", "smallCaps", "verticalAlign",
   "rStyle", "revision"}
NoRPr == [present |-> FALSE, el |-> [e \in RPrElements |-> Absent]]
RPr(els) == [present |-> TRUE,
             el |-> [e \in RPrElements |-> IF e \in DOMAIN els THEN els[e] ELSE Absent]]
EmptyProps == [f \in RunFields |-> Undefined]

\* parseInt of a string of decimal digits, and `${Math.round(n / 2)}pt`.
HalfPointsToPt(val) ==
  IF \E n \in 0..99 : ToString(n) = val
  THEN ToString(((CHOOSE n \in 0..99 : ToString(n) = val) + 1) \div 2) \o "pt"
  ELSE "NaNpt"

HasVal(v) == v \notin {Absent, ""}

extractRunProperties(rPr) ==
  IF ~rPr.present THEN EmptyProps
  ELSE [f \in RunFields |->
          CASE f = "rStyle" -> IF HasVal(rPr.el["rStyle"]) THEN rPr.el["rStyle"] ELSE Undefined
            [] f = "bold" -> IF rPr.el["b"] # Absent THEN True ELSE Undefined
            [] f = "italic" -> IF rPr.el["i"] # Absent THEN True ELSE Undefined
            [] f = "underline" ->
                 IF rPr.el["u"] = Absent THEN Undefined
                 ELSE IF rPr.el["u"] # "" THEN rPr.el["u"] ELSE True
            [] f = "fontSize" ->
                 IF HasVal(rPr.el["sz"]) THEN HalfPointsToPt(rPr.el["sz"]) ELSE Undefined
            [] f = "color" ->
                 IF HasVal(rPr.el["color"]) /\ rPr.el["color"] # "auto"
                 THEN "#" \o rPr.el["color"] ELSE Undefined
            [] f = "fontFamily" ->
                 IF HasVal(rPr.el["rFonts"]) THEN rPr.el["rFonts"] ELSE Undefined
            [] f = "highlight" ->
                 IF HasVal(rPr.el["highlight"]) /\ rPr.el["highlight"] # "none"
                 THEN rPr.el["highlight"] ELSE Undefined
            [] f = "strikethrough" -> IF rPr.el["strike"] # Absent THEN True ELSE Undefined
            [] f = "doubleStrikethrough" ->
                 IF rPr.el["dstrike"] # Absent THEN True ELSE Undefined
            [] f = "allCaps" -> IF rPr.el["caps"] # Absent THEN True ELSE Undefined
            [] f = "smallCaps" -> IF rPr.el["smallCaps"] # Absent THEN True ELSE Undefined
            [] f = "verticalAlign" ->
                 IF rPr.el["vertAlign"] \in {"superscript", "subscript"}
                 THEN rPr.el["vertAlign"] ELSE Undefined
            [] OTHER -> Undefined]

\* A merge in which the fields of the base win.
mergeRunPropertiesBaseWins(base, override) ==
  [f \in RunFields |-> IF base[f] # Undefined THEN base[f] ELSE override[f]]

\* A merge in which an override of "none" leaves the base's value.
mergeRunPropertiesNoneAbsent(base, override) ==
  [f \in RunFields |-> IF override[f] \notin {Undefined, "none"} THEN override[f] ELSE base[f]]

\* mergeRunProperties: every field the override defines replaces the base's.
mergeRunProperties(base, override) ==
  [f \in RunFields |-> IF override[f] # Undefined THEN override[f] ELSE base[f]]

\* tagName.match(/^(w:)?ins$/i) and the three like it: the tag names of the
\* tracked-change wrappers and the revision type of each.
RevisionTags ==
  [t \in {"w:ins", "ins", "w:del", "del", "w:moveFrom", "moveFrom", "w:moveTo", "moveTo"} |->
     CASE t \in {"w:ins", "ins"} -> "insertion"
       [] t \in {"w:del", "del"} -> "deletion"
       [] t \in {"w:moveFrom", "moveFrom"} -> "moveFrom"
       [] OTHER -> "moveTo"]
\* A search that goes on past the nearest wrapper to the outermost one.
RECURSIVE extractRevisionInfoOutermost(_)
extractRevisionInfoOutermost(path) ==
  IF path = <<>> THEN None
  ELSE IF extractRevisionInfoOutermost(Tail(path)) # None
  THEN extractRevisionInfoOutermost(Tail(path))
  ELSE IF Head(path).tagName \in DOMAIN RevisionTags
  THEN Some([type |-> RevisionTags[Head(path).tagName], id |-> Head(path).id])
  ELSE None
\* extractRevisionInfo(element): path is the element followed by its
\* ancestors up to the root.  The element itself is tested first; then the
\* while loop calls extractRevisionInfo on each ancestor in turn, nearest
\* first, and returns the first result that is not null.
RECURSIVE extractRevisionInfo(_)
RECURSIVE ParentRevision(_, _)
RECURSIVE FirstRevision(_, _, _)
extractRevisionInfo(path) ==
  IF Head(path).tagName \in DOMAIN RevisionTags
  THEN Some([type |-> RevisionTags[Head(path).tagName], id |-> Head(path).id])
  ELSE ParentRevision(path, 2)
ParentRevision(path, k) ==
  IF k > Len(path) THEN None
  ELSE FirstRevision(extractRevisionInfo(SubSeq(path, k, Len(path))), path, k)
FirstRevision(parentRevision, path, k) ==
  IF parentRevision # None THEN parentRevision ELSE ParentRevision(path, k + 1)
\* The path of a run element: the run, then the elements around it.
RunPath(run) ==
  <<[tagName |-> "w:r", id |-> Undefined]>>
  \o [i \in 1..Len(run.ancestors) |-> [tagName |-> "w:" \o run.ancestors[i], id |-> Undefined]]

\* parseInt of an attribute made of decimal digits.
ParseInt(val) == CHOOSE n \in 0..99 : ToString(n) = val

\* styleDef.paragraphProps of a style's pPr: alignment and indentation, or
\* None when the style sets neither.
IndFields == {"left", "right", "firstLine"}
StyleParagraphProps(pPr) ==
  LET alignment ==
        IF ~HasVal(pPr.jc) THEN Undefined
        ELSE CASE pPr.jc = "center" -> "center"
               [] pPr.jc = "right" -> "right"
               [] pPr.jc = "both" -> "justify"
               [] OTHER -> "left"
      indentation ==
        IF ~pPr.ind.present THEN None
        ELSE Some([f \in IndFields |->
                     IF pPr.ind[f] # "" THEN Some(ParseInt(pPr.ind[f])) ELSE None])
  IN  IF alignment = Undefined /\ indentation = None THEN None
      ELSE Some([alignment |-> alignment, indentation |-> indentation])

\* One lvl element: its numbering kind, its template and the paragraph
\* properties of its pPr child, when it has one.
LevelDefinitionOf(lvl) ==
  [numFmt |-> lvl.numFmt, lvlText |-> lvl.lvlText,
   paragraphProps |-> IF "pPr" \in DOMAIN lvl THEN StyleParagraphProps(lvl.pPr) ELSE None]

\* numId -> [abstractNumId, levels], for the num elements whose abstractNum exists.
parseNumberingDefinitions(hasXml, payload) ==
  IF ~hasXml THEN EmptyMap
  ELSE [numId \in {k \in DOMAIN payload.nums : payload.nums[k] \in DOMAIN payload.abstractNums} |->
          [abstractNumId |-> payload.nums[numId],
           levels |-> [l \in DOMAIN payload.abstractNums[payload.nums[numId]] |->
                         LevelDefinitionOf(payload.abstractNums[payload.nums[numId]][l])]]]

\* One style element: basedOn, the numbering and the paragraph properties of
\* its pPr, and the run properties of the rPr in its pPr or, failing that, of
\* its own rPr.
StyleDefinitionOf(style) ==
  [basedOn |-> style.basedOn,
   hasNumbering |-> style.pPr.present /\ style.pPr.hasNumPr,
   numbering |-> IF style.pPr.present /\ style.pPr.hasNumPr
                 THEN style.pPr.numbering ELSE [numId |-> Undefined, ilvl |-> 0],
   paragraphProps |-> IF style.pPr.present THEN StyleParagraphProps(style.pPr) ELSE None,
   runProperties |->
     IF style.pPr.present /\ style.pPr.rPr.present
     THEN Some(extractRunProperties(style.pPr.rPr))
     ELSE IF style.rPr.present THEN Some(extractRunProperties(style.rPr))
     ELSE None]

parseStyleDefinitions(hasXml, payload) ==
  IF ~hasXml THEN EmptyMap
  ELSE [id \in DOMAIN payload |-> StyleDefinitionOf(payload[id])]

NoNumbering == [numId |-> Undefined, ilvl |-> 0]

RECURSIVE getStyleNumbering(_, _, _)
getStyleNumbering(styleId, styles, visited) ==
  IF styleId \in visited THEN NoNumbering
  ELSE IF ~MapHas(styles, styleId) THEN NoNumbering
  ELSE IF styles[styleId].hasNumbering THEN styles[styleId].numbering
  ELSE IF styles[styleId].basedOn # Undefined
       THEN getStyleNumbering(styles[styleId].basedOn, styles, visited \cup {styleId})
  ELSE NoNumbering

getEffectiveNumbering(paragraphProps, styles) ==
  IF paragraphProps.numbering.numId # Undefined THEN paragraphProps.numbering
  ELSE IF paragraphProps.pStyle # Undefined
       THEN getStyleNumbering(paragraphProps.pStyle, styles, {})
  ELSE NoNumbering

\* The paragraph properties a style resolves to through its basedOn chain:
\* the parent's first, then the style's own alignment and indentation fields
\* over them.  None is `undefined`.
NoIndentation == [f \in IndFields |-> None]
RECURSIVE getStyleParagraphProps(_, _, _)
getStyleParagraphProps(styleId, styles, visited) ==
  IF styleId \in visited THEN None
  ELSE IF ~MapHas(styles, styleId) THEN None
  ELSE LET style == styles[styleId]
           parent == IF style.basedOn # Undefined
                     THEN getStyleParagraphProps(style.basedOn, styles, visited \cup {styleId})
                     ELSE None
           base == IF parent = None THEN [alignment |-> Undefined, indentation |-> None]
                   ELSE parent[1]
           own == style.paragraphProps[1]
           baseInd == IF base.indentation = None THEN NoIndentation ELSE base.indentation[1]
       IN  IF style.paragraphProps = None THEN parent
           ELSE Some([alignment |-> IF own.alignment # Undefined THEN own.alignment
                                    ELSE base.alignment,
                      indentation |->
                        IF own.indentation = None THEN base.indentation
                        ELSE Some([f \in IndFields |->
                                     IF own.indentation[1][f] # None
                                     THEN own.indentation[1][f] ELSE baseInd[f]])])

\* A resolution that reads the style's own run properties only.
getStyleRunPropertiesOwnOnly(styleId, styles, visited) ==
  IF ~MapHas(styles, styleId) \/ styles[styleId].runProperties = None THEN None
  ELSE IF styles[styleId].runProperties[1] = EmptyProps THEN None
  ELSE styles[styleId].runProperties

\* The run properties a style resolves to through its basedOn chain, or None
\* when the style is unknown, already visited or resolves to no field.
RECURSIVE getStyleRunProperties(_, _, _)
getStyleRunProperties(styleId, styles, visited) ==
  IF styleId \in visited THEN None
  ELSE IF ~MapHas(styles, styleId) THEN None
  ELSE LET style == styles[styleId]
           parentProps == IF style.basedOn # Undefined
                          THEN getStyleRunProperties(style.basedOn, styles,
                                                     visited \cup {styleId})
                          ELSE None
           inherited == IF parentProps # None THEN parentProps[1] ELSE EmptyProps
           props == IF style.runProperties # None
                    THEN mergeRunProperties(inherited, style.runProperties[1])
                    ELSE inherited
       IN  IF props # EmptyProps THEN Some(props) ELSE None

NumberingSchemes ==
  {"lowerLetter", "upperLetter", "lowerRoman", "upperRoman",
   "ordinal", "cardinalText", "ordinalText", "bullet"}
SchemeOf(numFmt) == IF numFmt \in NumberingSchemes THEN numFmt ELSE "decimal"

Placeholder(level) == "%" \o ToString(level + 1)

\* String.prototype.replace with a string pattern: the first occurrence only.
RECURSIVE ReplaceFirst(_, _, _)
ReplaceFirst(tokens, placeholder, text) ==
  IF tokens = <<>> THEN <<>>
  ELSE IF Head(tokens) = placeholder THEN <<text>> \o Tail(tokens)
  ELSE <<Head(tokens)>> \o ReplaceFirst(Tail(tokens), placeholder, text)

Includes(tokens, tok) == \E i \in 1..Len(tokens) : tokens[i] = tok

RECURSIVE ApplyLevels(_, _, _, _, _)
ApplyLevels(tokens, counter, level, currentLevel, definition) ==
  IF level > currentLevel THEN tokens
  ELSE LET counterValue == counter.counters[level]
           text == IF MapHas(definition.levels, level)
                   THEN getNumberingText(counterValue, SchemeOf(definition.levels[level].numFmt))
                   ELSE ToString(counterValue)
           replaced == IF Includes(tokens, Placeholder(level))
                       THEN ReplaceFirst(tokens, Placeholder(level), text)
                       ELSE tokens
       IN  ApplyLevels(replaced, counter, level + 1, currentLevel, definition)

applyLevelText(lvlText, counter, currentLevel, definitions, numId) ==
  IF ~MapHas(definitions, numId) THEN lvlText
  ELSE ApplyLevels(lvlText, counter, 0, currentLevel, definitions[numId])

EscapeChar(c) ==
  CASE c = "<" -> "&lt;" [] c = ">" -> "&gt;" [] c = "&" -> "&amp;" [] OTHER -> c
escapeHtml(text) == [i \in 1..Len(text) |-> EscapeChar(text[i])]

\* createRunStyles: the declarations pushed on `styles`, in order, each a list
\* of tokens, joined by "; ".
HighlightColorMap ==
  [c \in {"yellow", "brightGreen", "turquoise", "pink", "blue", "red", "darkBlue",
          "teal", "green", "violet", "darkRed", "darkYellow", "gray25", "gray50",
          "black"} |->
     CASE c = "yellow" -> "#ffff00" [] c = "brightGreen" -> "#00ff00"
       [] c = "turquoise" -> "#40e0d0" [] c = "pink" -> "#ffc0cb"
       [] c = "blue" -> "#0000ff" [] c = "red" -> "#ff0000"
       [] c = "darkBlue" -> "#000080" [] c = "teal" -> "#008080"
       [] c = "green" -> "#008000" [] c = "violet" -> "#ee82ee"
       [] c = "darkRed" -> "#8b0000" [] c = "darkYellow" -> "#8b8000"
       [] c = "gray25" -> "#c0c0c0" [] c = "gray50" -> "#808080"
       [] OTHER -> "#000000"]

RevisionDeclarations(type) ==
  CASE type = "insertion" -> <<<<"color:", "#008000", ";", "text-decoration:", "underline">>>>
    [] type = "deletion" ->
         <<<<"color:", "#ff0000", ";", "text-decoration:", "line-through">>>>
    [] type = "moveFrom" ->
         <<<<"color:", "#0000ff", ";", "text-decoration:", "line-through">>>>
    [] type = "moveTo" -> <<<<"color:", "#0000ff", ";", "text-decoration:", "underline">>>>
    [] OTHER -> <<>>

createRunStyles(props) ==
  LET If(cond, decl) == IF cond THEN <<decl>> ELSE <<>>
      decorations ==
        (IF props["underline"] \notin {Undefined, "none"} THEN <<"underline">> ELSE <<>>)
        \o (IF props["strikethrough"] # Undefined \/ props["doubleStrikethrough"] # Undefined
            THEN <<"line-through">> ELSE <<>>)
      styles ==
        If(props["bold"] # Undefined, <<"font-weight:", "bold">>)
        \o If(props["italic"] # Undefined, <<"font-style:", "italic">>)
        \o If(props["underline"] = "none", <<"text-decoration:", "none">>)
        \o If(decorations # <<>>, <<"text-decoration:">> \o decorations)
        \o If(props["underline"] = "double", <<"text-decoration-style:", "double">>)
        \o If(props["fontSize"] # Undefined, <<"font-size:", props["fontSize"]>>)
        \o If(props["color"] # Undefined, <<"color:", props["color"]>>)
        \o If(props["fontFamily"] # Undefined, <<"font-family:", props["fontFamily"]>>)
        \o If(props["highlight"] # Undefined,
              <<"background-color:",
                IF props["highlight"] \in DOMAIN HighlightColorMap
                THEN HighlightColorMap[props["highlight"]] ELSE props["highlight"]>>)
        \o (IF props["allCaps"] # Undefined THEN <<<<"text-transform:", "uppercase">>>>
            ELSE If(props["smallCaps"] # Undefined, <<"font-variant:", "small-caps">>))
        \o If(props["verticalAlign"] = "superscript",
              <<"vertical-align:", "super", ";", "font-size:", "smaller">>)
        \o If(props["verticalAlign"] = "subscript",
              <<"vertical-align:", "sub", ";", "font-size:", "smaller">>)
        \o (IF props["revision"] # Undefined THEN RevisionDeclarations(props["revision"])
            ELSE <<>>)
  IN  Join(styles, <<";">>)

\* The alignment and the indentation of a parsed pPr, Undefined and None
\* when it sets none.
AlignmentOf(parsed) == IF parsed = None THEN Undefined ELSE parsed[1].alignment
IndentationOf(parsed) == IF parsed = None THEN None ELSE parsed[1].indentation

\* extractParagraphProperties of the paragraph's pPr: the style reference, the
\* alignment, the indentation, the numbering and the run properties of the
\* paragraph mark.
ParagraphPropertiesOf(p, parsed) ==
  [pStyle |-> p.pStyle,
   alignment |-> AlignmentOf(parsed), indentation |-> IndentationOf(parsed),
   numbering |-> p.numbering,
   runProperties |-> IF p.rPr.present THEN Some(extractRunProperties(p.rPr)) ELSE None]
extractParagraphProperties(p) == ParagraphPropertiesOf(p, StyleParagraphProps(p))

\* Math.round(twips / 20 * 96 / 72): twips / 15, halves rounded up.
twipsToPixels(twips) == (2 * twips + 15) \div 30

\* The paragraph properties of the level the effective numbering names.
getNumberingParagraphProps(effectiveNumbering, numberingDefinitions) ==
  IF effectiveNumbering.numId = Undefined THEN None
  ELSE IF ~MapHas(numberingDefinitions, effectiveNumbering.numId) THEN None
  ELSE IF ~MapHas(numberingDefinitions[effectiveNumbering.numId].levels,
                  effectiveNumbering.ilvl) THEN None
  ELSE numberingDefinitions[effectiveNumbering.numId].levels[effectiveNumbering.ilvl].paragraphProps

\* One indentation field of a layer, None when the layer does not set it.
IndentOf(indentation, f) == IF indentation = None THEN None ELSE indentation[1][f]
\* The field after the three layers: style, then numbering, then direct.
MergedIndent(styleInd, numberingInd, directInd, f) ==
  IF IndentOf(directInd, f) # None THEN IndentOf(directInd, f)
  ELSE IF IndentOf(numberingInd, f) # None THEN IndentOf(numberingInd, f)
  ELSE IndentOf(styleInd, f)
FirstAlignment(direct, numbering, style) ==
  IF direct # Undefined THEN direct ELSE IF numbering # Undefined THEN numbering ELSE style
PixelDeclaration(property, twips) ==
  IF twips = None THEN <<>> ELSE <<<<property, ToString(twipsToPixels(twips[1])) \o "px">>>>
ParagraphDeclarations(alignment, left, right, firstLine) ==
  (IF alignment # Undefined THEN <<<<"text-align:", alignment>>>> ELSE <<>>)
  \o PixelDeclaration("margin-left:", left)
  \o PixelDeclaration("margin-right:", right)
  \o PixelDeclaration("text-indent:", firstLine)
\* A merge in which the numbering level overrides the paragraph's own
\* properties.
ParagraphStylesNumberingWins(props, styleProps, numberingProps) ==
  Join(ParagraphDeclarations(
         FirstAlignment(AlignmentOf(numberingProps), props.alignment, AlignmentOf(styleProps)),
         MergedIndent(IndentationOf(styleProps), props.indentation,
                      IndentationOf(numberingProps), "left"),
         MergedIndent(IndentationOf(styleProps), props.indentation,
                      IndentationOf(numberingProps), "right"),
         MergedIndent(IndentationOf(styleProps), props.indentation,
                      IndentationOf(numberingProps), "firstLine")), <<";">>)
\* The declarations of the paragraph given the properties of its three
\* layers.
ParagraphStylesOf(props, styleProps, numberingProps) ==
  Join(ParagraphDeclarations(
         FirstAlignment(props.alignment, AlignmentOf(numberingProps), AlignmentOf(styleProps)),
         MergedIndent(IndentationOf(styleProps), IndentationOf(numberingProps),
                      props.indentation, "left"),
         MergedIndent(IndentationOf(styleProps), IndentationOf(numberingProps),
                      props.indentation, "right"),
         MergedIndent(IndentationOf(styleProps), IndentationOf(numberingProps),
                      props.indentation, "firstLine")), <<";">>)
createParagraphStylesNumberingWins(props, context, effectiveNumbering) ==
  ParagraphStylesNumberingWins(props,
                               IF props.pStyle # Undefined
                               THEN getStyleParagraphProps(props.pStyle, context.styles, {})
                               ELSE None,
                               getNumberingParagraphProps(effectiveNumbering,
                                                          context.definitions))
createParagraphStyles(props, context, effectiveNumbering) ==
  ParagraphStylesOf(props,
                    IF props.pStyle # Undefined
                    THEN getStyleParagraphProps(props.pStyle, context.styles, {}) ELSE None,
                    getNumberingParagraphProps(effectiveNumbering, context.definitions))

\* One step of the merge: a layer that is there overrides the fields it
\* defines.
MergeLayer(merged, layer) ==
  IF layer # None THEN mergeRunProperties(merged, layer[1]) ELSE merged
\* The run properties of a style reference, when there is one.
StyleRunPropsOf(styleId, styles) ==
  IF styleId # Undefined THEN getStyleRunProperties(styleId, styles, {}) ELSE None
WithRevision(merged, revisionInfo) ==
  IF revisionInfo # None THEN [merged EXCEPT !["revision"] = revisionInfo[1].type] ELSE merged
\* Steps 1 to 4 of the merge: paragraph style, paragraph run properties,
\* character style, the run's own properties.
MergeLayers(directRunProps, context, paragraphProps) ==
  mergeRunProperties(
    MergeLayer(
      MergeLayer(
        MergeLayer(EmptyProps, StyleRunPropsOf(paragraphProps.pStyle, context.styles)),
        paragraphProps.runProperties),
      StyleRunPropsOf(directRunProps["rStyle"], context.styles)),
    directRunProps)
\* mergedRunProps of transformRun: the merged layers, then the revision.
MergedRunProps(run, context, paragraphProps) ==
  WithRevision(MergeLayers(extractRunProperties(run.rPr), context, paragraphProps),
               extractRevisionInfo(RunPath(run)))

FootnoteAnchor(id) == <<"<sup footnote-ref>", id, "</sup>">>
EndnoteAnchor(id) == <<"<sup endnote-ref>", id, "</sup>">>

\* The text of a run, in a span when its styles are not empty.
StyledText(styles, text) ==
  IF styles # <<>>
  THEN <<"<span style=">> \o styles \o <<">">> \o escapeHtml(text) \o <<"</span>">>
  ELSE escapeHtml(text)

\* A run that links every reference, defined or not.
transformRunLinkAll(run, context, paragraphProps) ==
  IF run.footnoteRef # "" THEN FootnoteAnchor(run.footnoteRef)
  ELSE IF run.endnoteRef # "" THEN EndnoteAnchor(run.endnoteRef)
  ELSE escapeHtml(run.text)

\* One run: a resolved note reference becomes an anchor, otherwise the text,
\* in a span when the merged properties give it a style.
transformRun(run, context, paragraphProps) ==
  IF run.footnoteRef # "" /\ MapHas(context.notes.footnotes, run.footnoteRef)
  THEN FootnoteAnchor(run.footnoteRef)
  ELSE IF run.endnoteRef # "" /\ MapHas(context.notes.endnotes, run.endnoteRef)
  THEN EndnoteAnchor(run.endnoteRef)
  ELSE IF Trim(run.text) = <<>> THEN <<>>
  ELSE StyledText(createRunStyles(MergedRunProps(run, context, paragraphProps)), run.text)

\* runContent: the runs' markup, blank pieces dropped, joined.
RunContent(runs, context, paragraphProps) ==
  Flatten(NonBlank([i \in 1..Len(runs) |-> transformRun(runs[i], context, paragraphProps)]))

\* A prefix that renders a level without a definition through the default
\* template "%1" instead of the decimal fallback.
NumberingPrefixDefaultTemplate(counter, currentNumber, level, numId, definitions) ==
  IF MapHas(definitions, numId)
  THEN applyLevelText(IF MapHas(definitions[numId].levels, level)
                      THEN definitions[numId].levels[level].lvlText ELSE <<"%1">>,
                      counter, level, definitions, numId) \o <<" ">>
  ELSE <<getNumberingText(currentNumber, "decimal"), ".", " ">>

\* The numbering prefix of a numbered paragraph, after its counter moved.
NumberingPrefix(counter, currentNumber, level, numId, definitions) ==
  IF MapHas(definitions, numId) /\ MapHas(definitions[numId].levels, level)
  THEN applyLevelText(definitions[numId].levels[level].lvlText, counter, level,
                      definitions, numId) \o <<" ">>
  ELSE <<getNumberingText(currentNumber, "decimal"), ".", " ">>

\* The paragraph's block: the explicit empty paragraph when there is neither
\* run content nor a numbering prefix.
ParagraphBlock(numberingPrefix, runContent, styles) ==
  IF Trim(runContent) = <<>> /\ numberingPrefix = <<>>
  THEN [tag |-> "p", prefix |-> <<>>, content |-> <<>>]
  ELSE IF styles # <<>>
  THEN [tag |-> "p", prefix |-> numberingPrefix, content |-> runContent, style |-> styles]
  ELSE [tag |-> "p", prefix |-> numberingPrefix, content |-> runContent]

\* A numbered paragraph once its counter was incremented.
NumberedBlock(context, numId, level, incremented, runContent, styles) ==
  [html |-> ParagraphBlock(NumberingPrefix(incremented.counter, incremented.value, level,
                                           numId, context.definitions),
                           runContent, styles),
   counters |-> MapSet(context.counters, numId, incremented.counter)]

\* The paragraph given its effective numbering and its run content.
ParagraphOf(context, effectiveNumbering, runContent, styles) ==
  IF effectiveNumbering.numId # Undefined
  THEN NumberedBlock(context, effectiveNumbering.numId, effectiveNumbering.ilvl,
                     incrementCounter(getOrCreateCounter(context.counters,
                                                         effectiveNumbering.numId),
                                      effectiveNumbering.ilvl),
                     runContent, styles)
  ELSE [html |-> ParagraphBlock(<<>>, runContent, styles), counters |-> context.counters]

\* The paragraph given its properties and its effective numbering.
ParagraphNumbered(p, context, paragraphProps, effectiveNumbering) ==
  ParagraphOf(context, effectiveNumbering, RunContent(p.runs, context, paragraphProps),
              createParagraphStyles(paragraphProps, context, effectiveNumbering))
ParagraphWith(p, context, paragraphProps) ==
  ParagraphNumbered(p, context, paragraphProps,
                    getEffectiveNumbering(paragraphProps, context.styles))

\* [html, counters]: the paragraph's block and the counters after it.
transformParagraph(p, context) == ParagraphWith(p, context, extractParagraphProperties(p))

\* element.querySelectorAll(kind): the descendants of that kind, in document
\* order.  Tables, rows and cells hold child elements; a paragraph holds runs.
ChildElements(element) ==
  IF element.kind \in {"tbl", "tr", "tc"} THEN element.children ELSE <<>>
RECURSIVE Descendants(_, _)
Descendants(element, kind) ==
  Flatten([i \in 1..Len(ChildElements(element)) |->
             (IF ChildElements(element)[i].kind = kind
              THEN <<ChildElements(element)[i]>> ELSE <<>>)
             \o Descendants(ChildElements(element)[i], kind)])

\* paragraphElements of transformTableCell.
CellParagraphs(cell) == Descendants(cell, "p")

RenderParagraph(block) ==
  (IF "style" \in DOMAIN block THEN <<"<p style=">> \o block.style \o <<">">> ELSE <<"<p>">>)
  \o block.prefix \o block.content \o <<"</p>">>

\* One step of a map that carries the counters: the piece is appended, the
\* counters are those the step leaves.
AppendStep(before, html, after) ==
  [html |-> Append(before.html, html), counters |-> after]
WithCounters(context, ctrs) == [context EXCEPT !.counters = ctrs]

ParagraphStep(before, step) == AppendStep(before, RenderParagraph(step.html), step.counters)
ParagraphsAfter(paragraphs, n, context, before) ==
  ParagraphStep(before, transformParagraph(paragraphs[n], WithCounters(context, before.counters)))
\* The map over the first n paragraphs of a cell: [html, counters].
RECURSIVE WalkParagraphs(_, _, _)
WalkParagraphs(paragraphs, n, context) ==
  IF n = 0 THEN [html |-> <<>>, counters |-> context.counters]
  ELSE ParagraphsAfter(paragraphs, n, context, WalkParagraphs(paragraphs, n - 1, context))

\* The cell's markup from the map over its paragraphs.
CellOf(inner, ctrs) ==
  [html |-> <<"<td>">> \o (IF Trim(inner) = <<>> THEN <<"<p>", "</p>">> ELSE inner)
            \o <<"</td>">>,
   counters |-> ctrs]
CellOfWalk(walk) == CellOf(Join(NonBlank(walk.html), <<"\n">>), walk.counters)
transformTableCell(cell, context) ==
  CellOfWalk(WalkParagraphs(CellParagraphs(cell), Len(CellParagraphs(cell)), context))

ElementStep(before, step) == AppendStep(before, step.html, step.counters)
CellsAfter(cells, n, context, before) ==
  ElementStep(before, transformTableCell(cells[n], WithCounters(context, before.counters)))
\* The map over the first n cells of a row: [html, counters].
RECURSIVE WalkCells(_, _, _)
WalkCells(cells, n, context) ==
  IF n = 0 THEN [html |-> <<>>, counters |-> context.counters]
  ELSE CellsAfter(cells, n, context, WalkCells(cells, n - 1, context))

RowOf(inner, ctrs) ==
  [html |-> IF Trim(inner) = <<>> THEN <<"<tr>", "<td>", "</td>", "</tr>">>
            ELSE <<"<tr>">> \o inner \o <<"</tr>">>,
   counters |-> ctrs]
RowOfWalk(walk) == RowOf(Flatten(NonBlank(walk.html)), walk.counters)
transformTableRow(row, context) ==
  RowOfWalk(WalkCells(Descendants(row, "tc"), Len(Descendants(row, "tc")), context))

RowsAfter(rows, n, context, before) ==
  ElementStep(before, transformTableRow(rows[n], WithCounters(context, before.counters)))
\* The map over the first n rows of a table: [html, counters].
RECURSIVE WalkRows(_, _, _)
WalkRows(rows, n, context) ==
  IF n = 0 THEN [html |-> <<>>, counters |-> context.counters]
  ELSE RowsAfter(rows, n, context, WalkRows(rows, n - 1, context))

\* The table block (its content is the markup between the table tags).
TableOf(inner, ctrs) ==
  [html |-> [tag |-> "table", prefix |-> <<>>,
             content |-> IF Trim(inner) = <<>> THEN <<"<tr>", "<td>", "</td>", "</tr>">>
                         ELSE <<"\n">> \o inner \o <<"\n">>],
   counters |-> ctrs]
TableOfWalk(walk) == TableOf(Join(NonBlank(walk.html), <<"\n">>), walk.counters)
transformTable(table, context) ==
  TableOfWalk(WalkRows(Descendants(table, "tr"), Len(Descendants(table, "tr")), context))

\* One content element: a table or a paragraph.
TransformElement(element, context) ==
  IF element.kind = "tbl" THEN transformTable(element, context)
  ELSE transformParagraph(element, context)

BodyAfter(elements, n, context, before) ==
  ElementStep(before, TransformElement(elements[n], WithCounters(context, before.counters)))
\* The walk over the first n content elements: [html, counters].
RECURSIVE WalkBody(_, _, _)
WalkBody(elements, n, context) ==
  IF n = 0 THEN [html |-> <<>>, counters |-> context.counters]
  ELSE BodyAfter(elements, n, context, WalkBody(elements, n - 1, context))

\* A filter that keeps the paragraphs only.
ContentElementsParagraphsOnly(body) ==
  LET F[i \in 0..Len(body)] ==
        IF i = 0 THEN <<>>
        ELSE IF body[i].kind = "p" THEN Append(F[i - 1], body[i]) ELSE F[i - 1]
  IN  F[Len(body)]

\* The children of the body that are paragraphs or tables.
ContentElements(body) ==
  LET isContent == [i \in 1..Len(body) |-> body[i].kind \in {"p", "tbl"}]
      F[i \in 0..Len(body)] ==
        IF i = 0 THEN <<>>
        ELSE IF isContent[i] THEN Append(F[i - 1], body[i]) ELSE F[i - 1]
  IN  F[Len(body)]

NoteBlocks(notes, tag) ==
  LET F[i \in 0..Len(notes)] ==
        IF i = 0 THEN <<>>
        ELSE IF notes[i].noteType = "normal"
             THEN Append(F[i - 1], [tag |-> tag, prefix |-> <<OriginalId(notes[i]), ".">>,
                                    content |-> notes[i].content])
             ELSE F[i - 1]
  IN  F[Len(notes)]

\* The wrapper appended for the notes of one kind, when any is normal.
NotesWrapper(notes, tag) ==
  IF NoteBlocks(notes, tag) = <<>> THEN <<>>
  ELSE <<[tag |-> tag \o "s", prefix |-> <<>>, content |-> NoteBlocks(notes, tag)]>>

\* body.querySelectorAll('w\\:p, p')
BodyParagraphs(body) ==
  Flatten([i \in 1..Len(body) |->
             (IF body[i].kind = "p" THEN <<body[i]>> ELSE <<>>)
             \o Descendants(body[i], "p")])

ParagraphText(p) == Flatten([i \in 1..Len(p.runs) |-> p.runs[i].text])

PlainTextOf(body, footnotes, endnotes) ==
  LET paragraphs == BodyParagraphs(body)
      mainText == Join(NonBlank([i \in 1..Len(paragraphs) |-> ParagraphText(paragraphs[i])]),
                       <<"\n">>)
      footnoteText == Join([i \in 1..Len(footnotes) |-> footnotes[i].plainText], <<" ">>)
      endnoteText == Join([i \in 1..Len(endnotes) |-> endnotes[i].plainText], <<" ">>)
      plainText == Join(NonBlank(<<mainText, footnoteText, endnoteText>>), <<"\n">>)
  IN  IF plainText # <<>> THEN plainText ELSE <<"No content to display.">>

\* A context that takes up the counters the previous pass left.
StaleContextCounters == counters
\* The counters the context of a pass starts with.
ContextCounters == createNumberingCounters

\* transformDocumentToHtml: [html, plainText] and the counters the pass leaves.
transformDocumentToHtml(documentXml, footnotes, endnotes, hasNumbering, numberingXml, hasStyles, stylesXml) ==
  LET context == [notes |-> createNoteContext(footnotes, endnotes),
                  counters |-> ContextCounters,
                  definitions |-> parseNumberingDefinitions(hasNumbering, numberingXml),
                  styles |-> parseStyleDefinitions(hasStyles, stylesXml)]
      contentElements == ContentElements(documentXml.body)
      walk == WalkBody(contentElements, Len(contentElements), context)
  IN  IF ~documentXml.hasBody
      THEN [html |-> <<[tag |-> "p", prefix |-> <<>>,
                        content |-> <<"No document content found.">>]>>,
            plainText |-> <<"No document content found.">>,
            counters |-> context.counters]
      ELSE IF contentElements = <<>>
      THEN [html |-> <<[tag |-> "p", prefix |-> <<>>,
                        content |-> <<"No content found in document.">>]>>,
            plainText |-> <<"No content found in document.">>,
            counters |-> context.counters]
      ELSE [html |-> walk.html \o NotesWrapper(footnotes, "footnote")
                               \o NotesWrapper(endnotes, "endnote"),
            plainText |-> PlainTextOf(documentXml.body, footnotes, endnotes),
            counters |-> walk.counters]

(***************************************************************************)
(* parseDocxComments.                                                      *)
(***************************************************************************)
EmptyResult ==
  [comments |-> <<>>, footnotes |-> <<>>, endnotes |-> <<>>, error |-> Undefined,
   xml |-> {}, extendedData |-> None, durableIds |-> None, transformedContent |-> None]

\* A catch that reports every failure under the fallback text.
CaughtResultAnyMessage(thrown) ==
  [EmptyResult EXCEPT !.error = "Unknown parsing error"]
\* The object the outer catch returns.
CaughtResult(thrown) ==
  [EmptyResult EXCEPT !.error =
     IF thrown.isError THEN thrown.message ELSE "Unknown parsing error"]

\* A return that sets the error on the result built so far.
MissingDocumentKeepsParsed(partial) ==
  [partial EXCEPT !.error = "Required document.xml not found in .docx file"]
\* The object returned when result.documentXml is missing.
MissingDocumentResult(partial) ==
  [EmptyResult EXCEPT !.error = "Required document.xml not found in .docx file"]

\* A catch that also sets error, and one that returns a fresh object.
TransformFailureWithError(partial) ==
  [partial EXCEPT
     !.error = "Error transforming document content to HTML.",
     !.transformedContent =
        Some([html |-> <<[tag |-> "p", prefix |-> <<>>,
                          content |-> <<"Error transforming document content to HTML.">>]>>,
              plainText |-> <<"Error transforming document content to HTML.">>])]
TransformFailureDropsParsed(partial) ==
  [EmptyResult EXCEPT
     !.transformedContent =
        Some([html |-> <<[tag |-> "p", prefix |-> <<>>,
                          content |-> <<"Error transforming document content to HTML.">>]>>,
              plainText |-> <<"Error transforming document content to HTML.">>])]
\* The result after the catch around transformDocumentToHtml.
TransformFailureResult(partial) ==
  [partial EXCEPT
     !.transformedContent =
        Some([html |-> <<[tag |-> "p", prefix |-> <<>>,
                          content |-> <<"Error transforming document content to HTML.">>]>>,
              plainText |-> <<"Error transforming document content to HTML.">>])]

\* `(result.extendedData || result.durableIds) && result.comments.length > 0`
NeedsEnhancement(partial) ==
  /\ partial.extendedData # None \/ partial.durableIds # None
  /\ Len(partial.comments) > 0

\* The result object after the forEach over the extracted parts.
ExtractedResult(p, documentId) ==
  LET has(k) == parseXmlToDom(p.parts[k])
  IN  [comments |-> IF has("comments") THEN parseCommentsXml(p.parts["comments"], documentId)
                    ELSE <<>>,
       footnotes |-> IF has("footnotes")
                     THEN parseFootnotesEndnotesXml(p.parts["footnotes"], documentId, "footnote")
                     ELSE <<>>,
       endnotes |-> IF has("endnotes")
                    THEN parseFootnotesEndnotesXml(p.parts["endnotes"], documentId, "endnote")
                    ELSE <<>>,
       error |-> Undefined,
       xml |-> {k \in PartKeys : has(k)},
       extendedData |-> IF has("commentsExtended")
                        THEN Some(parseCommentsExtendedXml(p.parts["commentsExtended"]))
                        ELSE None,
       durableIds |-> IF has("commentsIds")
                      THEN Some(parseCommentsIdsXml(p.parts["commentsIds"]))
                      ELSE None,
       transformedContent |-> None]

EnhancedResult(partial) ==
  IF NeedsEnhancement(partial)
  THEN [partial EXCEPT !.comments =
          enhanceCommentsWithExtendedData(
            partial.comments,
            IF partial.extendedData # None THEN partial.extendedData[1] ELSE EmptyMap,
            IF partial.durableIds # None THEN partial.durableIds[1] ELSE EmptyMap)]
  ELSE partial

\* [result, pass]: the DocxParseResult, and the counters of the transformation
\* pass when one ran to its end (None otherwise).
parseDocxComments(p, documentId) ==
  IF ~p.archive.ok THEN [result |-> CaughtResult(p.archive.thrown), pass |-> None]
  ELSE LET partial == EnhancedResult(ExtractedResult(p, documentId))
           transformed ==
             transformDocumentToHtml(
               p.parts["document"].payload, partial.footnotes, partial.endnotes,
               "numbering" \in partial.xml, p.parts["numbering"].payload,
               "styles" \in partial.xml, p.parts["styles"].payload)
       IN  IF "document" \notin partial.xml
           THEN [result |-> MissingDocumentResult(partial), pass |-> None]
           ELSE IF p.env.transformThrows
           THEN [result |-> TransformFailureResult(partial), pass |-> None]
           ELSE [result |-> [partial EXCEPT !.transformedContent =
                               Some([html |-> transformed.html,
                                     plainText |-> transformed.plainText])],
                 pass |-> Some(transformed.counters)]

(***************************************************************************)
(* Actions.                                                                *)
(***************************************************************************)
\* One call of parseDocxComments(file, documentId) on the package.
ParseDocx ==
  /\ parses < MaxParses
  /\ \E call \in {parseDocxComments(pkg, DocumentId)} :
         /\ result' = call.result
         /\ counters' = IF call.pass = None THEN counters ELSE call.pass[1]
  /\ prevResult' = result
  /\ parses' = parses + 1
  /\ UNCHANGED <<pkg, lastInc, content, prevContent, passes, appVars>>

\* One call of transformDocumentToHtml on the package's parsed document.
TransformPass ==
  /\ passes < MaxPasses
  /\ \E partial \in {ExtractedResult(pkg, DocumentId)} :
     \E transformed \in
          {transformDocumentToHtml(
             pkg.parts["document"].payload, partial.footnotes, partial.endnotes,
             "numbering" \in partial.xml, pkg.parts["numbering"].payload,
             "styles" \in partial.xml, pkg.parts["styles"].payload)} :
         /\ content' = Some([html |-> transformed.html, plainText |-> transformed.plainText])
         /\ counters' = transformed.counters
  /\ prevContent' = content
  /\ passes' = passes + 1
  /\ UNCHANGED <<pkg, result, prevResult, parses, lastInc, appVars>>

\* Lines 1443-1445 of transformParagraph on the live counters of a pass:
\* getOrCreateCounter(counters, numId), then incrementCounter(counter, level).
IncrementStep(numId, level) ==
  LET before == getOrCreateCounter(counters, numId)
      call == incrementCounter(before, level)
  IN  /\ before.counters[level] < before.starts[level] + MaxCount
      /\ counters' = MapSet(counters, numId, call.counter)
      /\ lastInc' = Some([numId |-> numId, level |-> level, before |-> before,
                          after |-> call.counter, returned |-> call.value])
      /\ UNCHANGED <<pkg, result, prevResult, parses, content, prevContent, passes, appVars>>

\* Concurrent calls of parseDocxComments, one per document.  A call suspends
\* at file.arrayBuffer() / JSZip.loadAsync and at zipFile.async('text') of
\* each part the archive holds; what follows Promise.all runs without
\* suspension.  overlapped records that a part of the call was extracted
\* while another call was between its first and last extraction.
DocIds == {"doc1", "doc2"}
StoredParts(p) == {k \in PartKeys : p.parts[k].status # "absent"}
Extracting(job) == job.stage = "extracting" /\ job.extracted # {}

\* await file.arrayBuffer(); await JSZip.loadAsync(arrayBuffer)
LoadArchive(d) ==
  /\ jobs[d].stage = "called"
  /\ jobs' = [jobs EXCEPT ![d].stage = IF jobs[d].file.archive.ok THEN "extracting"
                                       ELSE "done",
                          ![d].result = IF jobs[d].file.archive.ok THEN None
                                        ELSE Some(parseDocxComments(jobs[d].file, d).result)]
  /\ UNCHANGED <<pkg, result, prevResult, parses, counters, lastInc, content, prevContent,
                 passes, resolved, revision, hook>>

\* await zipFile.async('text') of one part resolves.
ExtractPart(d, k) ==
  /\ jobs[d].stage = "extracting"
  /\ k \in StoredParts(jobs[d].file) \ jobs[d].extracted
  /\ jobs' = [jobs EXCEPT ![d].extracted = @ \cup {k},
                          ![d].overlapped =
                             @ \/ \E other \in DocIds \ {d} : Extracting(jobs[other])]
  /\ UNCHANGED <<pkg, result, prevResult, parses, counters, lastInc, content, prevContent,
                 passes, resolved, revision, hook>>

\* Promise.all resolves: the parts are parsed, the comments threaded and the
\* document transformed in one synchronous run over the extracted texts.
FinishParse(d) ==
  /\ jobs[d].stage = "extracting"
  /\ jobs[d].extracted = StoredParts(jobs[d].file)
  /\ \E call \in {parseDocxComments(
                     [jobs[d].file EXCEPT !.parts =
                        [k \in PartKeys |->
                           IF k \in jobs[d].extracted THEN jobs[d].file.parts[k]
                           ELSE [status |-> "absent", payload |-> <<>>]]], d)} :
       /\ jobs' = [jobs EXCEPT ![d].stage = "done", ![d].result = Some(call.result)]
       /\ counters' = IF call.pass = None THEN counters ELSE call.pass[1]
  /\ UNCHANGED <<pkg, result, prevResult, parses, lastInc, content, prevContent, passes,
                 resolved, revision, hook>>

(***************************************************************************)
(* hooks/useDocuments.ts.  hook holds the React state (documents,          *)
(* activeDocumentId, selectedDocumentIds, comments), the values of         *)
(* documents and activeDocumentId that the callbacks of the latest render  *)
(* closed over, the addDocument calls whose parse is pending, the ids      *)
(* removeDocument was called with, the number of documents accepted, how   *)
(* each settled parse ended, and the comment selection (selectedCommentId, *)
(* selectedCommentIds) with the updates of it queued since the last        *)
(* render.                                                                 *)
(* State updates made with an updater function apply to the current        *)
(* state; reads of documents in a callback see the closure.                *)
(***************************************************************************)
DocxMimeType == "application/vnd.openxmlformats-officedocument.wordprocessingml.document"
isValidDocxFile(file) == file.extension = ".docx" /\ file.type \in {DocxMimeType, ""}

\* crypto.randomUUID(): an id no earlier call returned.
RandomUUID(n) == "uuid-" \o ToString(n)

SameFile(doc, file) == doc.name = file.name /\ doc.size = file.size

\* documents.find(doc => doc.name === file.name && doc.size === file.size)
ExistingDoc(documents, file) ==
  \E i \in 1..Len(documents) : SameFile(documents[i], file)

Range(seq) == {seq[i] : i \in 1..Len(seq)}
\* Array.prototype.filter: the elements of seq that are in keep, in order.
Filter(seq, keep) ==
  LET F[i \in 0..Len(seq)] ==
        IF i = 0 THEN <<>>
        ELSE IF seq[i] \in keep THEN Append(F[i - 1], seq[i]) ELSE F[i - 1]
  IN  F[Len(seq)]

\* The useState initialisers of the hook, with nothing pending.
UseState ==
  [documents |-> <<>>, activeDocumentId |-> Undefined,
   selectedDocumentIds |-> <<>>, comments |-> <<>>,
   selectedCommentId |-> Undefined, selectedCommentIds |-> <<>>,
   closure |-> [documents |-> <<>>, activeDocumentId |-> Undefined],
   pending |-> {}, removed |-> {}, uploads |-> 0, settled |-> EmptyMap,
   queuedId |-> <<>>, queuedIds |-> <<>>, calls |-> 0]

\* newSelection.length > 0 ? newSelection[newSelection.length - 1] : null
LastOrNull(selection) ==
  IF Len(selection) > 0 THEN selection[Len(selection)] ELSE Undefined

\* The updater functions handed to setSelectedCommentIds, by the callback
\* that makes them: the array each returns for the array prev it is given.
\* A "set" stands for the array passed as a value.
UpdaterResult(update, prev) ==
  IF update.kind = "set" THEN update.value
  ELSE IF update.kind = "select"
  THEN IF update.id \notin Range(prev) THEN Append(prev, update.id) ELSE prev
  ELSE IF update.kind = "deselect" THEN Filter(prev, Range(prev) \ {update.id})
  ELSE IF update.multiSelect
  THEN IF update.id \in Range(prev) THEN Filter(prev, Range(prev) \ {update.id})
       ELSE Append(prev, update.id)
  ELSE IF prev = <<update.id>> THEN <<>> ELSE <<update.id>>

\* The setSelectedCommentId calls an updater function makes while it runs.
UpdaterCalls(update, prev) ==
  IF update.kind \in {"set", "select"} THEN <<>>
  ELSE IF update.kind = "deselect" THEN <<LastOrNull(UpdaterResult(update, prev))>>
  ELSE IF update.multiSelect
  THEN IF update.id \in Range(prev) THEN <<LastOrNull(UpdaterResult(update, prev))>>
       ELSE <<update.id>>
  ELSE IF prev = <<update.id>> THEN <<Undefined>> ELSE <<update.id>>

\* No update of the hook is queued: React runs an updater function handed
\* to a setter at once, with the state of the last render, and queues its
\* result; otherwise it queues the function and runs it in the next render.
NothingQueued(h) == h.queuedId = <<>> /\ h.queuedIds = <<>>

\* setSelectedCommentId(value)
QueueId(h, value) ==
  IF NothingQueued(h) /\ value = h.selectedCommentId THEN h
  ELSE [h EXCEPT !.queuedId = Append(@, value)]

\* setSelectedCommentIds(update), update an array or an updater function
QueueIds(h, update) ==
  IF ~NothingQueued(h) \/ update.kind = "set" THEN [h EXCEPT !.queuedIds = Append(@, update)]
  ELSE IF update.kind = "select" /\ update.id \in Range(h.selectedCommentIds) THEN h
  ELSE [h EXCEPT !.queuedIds = <<[kind |-> "set",
                                  value |-> UpdaterResult(update, h.selectedCommentIds)]>>,
                 !.queuedId = UpdaterCalls(update, h.selectedCommentIds)]

\* The render's pass over the queue of selectedCommentIds: [ids, calls], the
\* array after every queued update and the setSelectedCommentId calls the
\* updater functions made during the render, in order.
RECURSIVE RunQueue(_, _, _)
RunQueue(queue, prev, calls) ==
  IF queue = <<>> THEN [ids |-> prev, calls |-> calls]
  ELSE RunQueue(Tail(queue), UpdaterResult(Head(queue), prev),
                calls \o UpdaterCalls(Head(queue), prev))

\* The state a render returns: the queued values of selectedCommentId are
\* applied, then the queue of selectedCommentIds; a setSelectedCommentId
\* call made during the render is applied on top, in a render that follows
\* at once.
RenderedSelection(h, ran) ==
  [h EXCEPT !.selectedCommentIds = ran.ids,
            !.selectedCommentId =
               IF ran.calls # <<>> THEN ran.calls[Len(ran.calls)]
               ELSE IF h.queuedId # <<>> THEN h.queuedId[Len(h.queuedId)] ELSE @,
            !.queuedId = <<>>, !.queuedIds = <<>>, !.calls = 0]

\* React renders again: queued state updates are applied and the callbacks
\* close over the current state.
Render ==
  /\ \/ hook.closure # [documents |-> hook.documents,
                         activeDocumentId |-> hook.activeDocumentId]
     \/ hook.calls > 0
  /\ hook' = [RenderedSelection(hook, RunQueue(hook.queuedIds, hook.selectedCommentIds, <<>>))
                EXCEPT !.closure = [documents |-> hook.documents,
                                    activeDocumentId |-> hook.activeDocumentId]]
  /\ UNCHANGED <<pkg, result, prevResult, parses, counters, lastInc, content, prevContent,
                 passes, resolved, revision, jobs>>

\* addDocument(file) up to its await: validation, duplicate check against
\* the closure's documents, and the document added with isProcessing.
AddDocument(file) ==
  /\ hook.uploads < MaxUploads
  /\ \E documentId \in {RandomUUID(hook.uploads + 1)} :
       hook' =
         IF ~isValidDocxFile(file) \/ ExistingDoc(hook.closure.documents, file)
         THEN hook
         ELSE [hook EXCEPT
                 !.documents = Append(@, [id |-> documentId, name |-> file.name,
                                          size |-> file.size, comments |-> <<>>,
                                          isProcessing |-> TRUE,
                                          processingError |-> Undefined]),
                 !.pending = @ \cup {documentId},
                 !.uploads = @ + 1]
  /\ UNCHANGED <<pkg, result, prevResult, parses, counters, lastInc, content, prevContent,
                 passes, resolved, revision, jobs>>

\* The record of how the parse of a document settled: whether the awaited
\* call threw, and the error its result reported.
Settled(settled, documentId, threw, error) ==
  [id \in DOMAIN settled \cup {documentId} |->
     IF id = documentId THEN [threw |-> threw, error |-> error] ELSE settled[id]]

\* A continuation that stores the result and leaves isProcessing as it is.
CompleteParseStillProcessing(documentId) ==
  /\ documentId \in hook.pending
  /\ \E parseResult \in {parseDocxComments(pkg, documentId).result} :
       hook' = [hook EXCEPT
                  !.documents =
                     [i \in 1..Len(@) |->
                        IF @[i].id = documentId
                        THEN [@[i] EXCEPT !.comments = parseResult.comments,
                                          !.processingError = parseResult.error]
                        ELSE @[i]],
                  !.comments = IF Len(parseResult.comments) > 0
                               THEN @ \o parseResult.comments ELSE @,
                  !.pending = @ \ {documentId},
                  !.settled = Settled(@, documentId, FALSE, parseResult.error)]
  /\ UNCHANGED <<pkg, result, prevResult, parses, counters, lastInc, content, prevContent,
                 passes, resolved, revision, jobs>>

\* addDocument after its await: parseDocxComments(file, documentId) has
\* resolved; the document, if still listed, takes the result, and the
\* comments are appended to the global list.
CompleteParse(documentId) ==
  /\ documentId \in hook.pending
  /\ \E parseResult \in {parseDocxComments(pkg, documentId).result} :
       hook' = [hook EXCEPT
                  !.documents =
                     [i \in 1..Len(@) |->
                        IF @[i].id = documentId
                        THEN [@[i] EXCEPT !.comments = parseResult.comments,
                                          !.isProcessing = FALSE,
                                          !.processingError = parseResult.error]
                        ELSE @[i]],
                  !.comments = IF Len(parseResult.comments) > 0
                               THEN @ \o parseResult.comments ELSE @,
                  !.pending = @ \ {documentId},
                  !.settled = Settled(@, documentId, FALSE, parseResult.error)]
  /\ UNCHANGED <<pkg, result, prevResult, parses, counters, lastInc, content, prevContent,
                 passes, resolved, revision, jobs>>

\* error instanceof Error ? error.message : 'Unknown error'
ProcessingError(error) == IF error.isError THEN error.message ELSE "Unknown error"

\* addDocument's catch block: the awaited parseDocxComments(file, documentId)
\* rejected with error, or a statement of the try block threw it; the
\* document, if still listed, leaves the processing state with the message.
FailParse(documentId, error) ==
  /\ documentId \in hook.pending
  /\ hook' = [hook EXCEPT
                !.documents =
                   [i \in 1..Len(@) |->
                      IF @[i].id = documentId
                      THEN [@[i] EXCEPT !.isProcessing = FALSE,
                                        !.processingError = ProcessingError(error)]
                      ELSE @[i]],
                !.pending = @ \ {documentId},
                !.settled = Settled(@, documentId, TRUE, Undefined)]
  /\ UNCHANGED <<pkg, result, prevResult, parses, counters, lastInc, content, prevContent,
                 passes, resolved, revision, jobs>>

\* removeDocument(id), for the id of a document that was added
RemoveDocument(id) ==
  /\ id \in {RandomUUID(n) : n \in 1..hook.uploads}
  /\ id \notin hook.removed
  /\ hook' = [hook EXCEPT
                !.documents = Filter(@, {d \in Range(@) : d.id # id}),
                !.comments = Filter(@, {c \in Range(@) : c.documentId # id}),
                !.selectedDocumentIds = Filter(@, Range(@) \ {id}),
                !.activeDocumentId = IF hook.closure.activeDocumentId = id THEN Undefined
                                     ELSE @,
                !.removed = @ \cup {id}]
  /\ UNCHANGED <<pkg, result, prevResult, parses, counters, lastInc, content, prevContent,
                 passes, resolved, revision, jobs>>

\* A selection callback has run: calls counts those since the last render.
Called(h) == [h EXCEPT !.calls = @ + 1]

\* setSelectedComment(id), id a comment id or null
SetSelectedComment(id) ==
  /\ hook.calls < MaxCalls
  /\ hook' = Called(QueueIds(QueueId(hook, id),
                          [kind |-> "set", value |-> IF id # Undefined THEN <<id>> ELSE <<>>]))
  /\ UNCHANGED <<pkg, result, prevResult, parses, counters, lastInc, content, prevContent,
                 passes, resolved, revision, jobs>>

\* selectComment(id)
SelectComment(id) ==
  /\ hook.calls < MaxCalls
  /\ hook' = Called(QueueId(QueueIds(hook, [kind |-> "select", id |-> id]), id))
  /\ UNCHANGED <<pkg, result, prevResult, parses, counters, lastInc, content, prevContent,
                 passes, resolved, revision, jobs>>

\* deselectComment(id)
DeselectComment(id) ==
  /\ hook.calls < MaxCalls
  /\ hook' = Called(QueueIds(hook, [kind |-> "deselect", id |-> id]))
  /\ UNCHANGED <<pkg, result, prevResult, parses, counters, lastInc, content, prevContent,
                 passes, resolved, revision, jobs>>

\* toggleCommentSelection(id, multiSelect)
ToggleCommentSelection(id, multiSelect) ==
  /\ hook.calls < MaxCalls
  /\ hook' = Called(QueueIds(hook, [kind |-> "toggle", id |-> id, multiSelect |-> multiSelect]))
  /\ UNCHANGED <<pkg, result, prevResult, parses, counters, lastInc, content, prevContent,
                 passes, resolved, revision, jobs>>

\* clearSelectedComments()
ClearSelectedComments ==
  /\ hook.calls < MaxCalls
  /\ hook' = Called(QueueId(QueueIds(hook, [kind |-> "set", value |-> <<>>]), Undefined))
  /\ UNCHANGED <<pkg, result, prevResult, parses, counters, lastInc, content, prevContent,
                 passes, resolved, revision, jobs>>

\* The three style lookups made for a paragraph whose pStyle is styleId:
\* getStyleNumbering, getStyleParagraphProps and getStyleRunProperties, each
\* with a fresh visited set.
Resolve(styleId) ==
  /\ \E styles \in {parseStyleDefinitions(TRUE, pkg.parts["styles"].payload)} :
       resolved' = Some([styleId |-> styleId,
                         numbering |-> getStyleNumbering(styleId, styles, {}),
                         paragraphProps |-> getStyleParagraphProps(styleId, styles, {}),
                         runProperties |-> getStyleRunProperties(styleId, styles, {})])
  /\ UNCHANGED <<pkg, result, prevResult, parses, counters, lastInc, content, prevContent,
                 passes, revision, jobs, hook>>

\* The call of extractRevisionInfo on the node at the head of the path.
Detect ==
  /\ revision # None
  /\ ~revision[1].called
  /\ revision' = Some([revision[1] EXCEPT !.called = TRUE,
                                          !.returned = extractRevisionInfo(revision[1].path)])
  /\ UNCHANGED <<pkg, result, prevResult, parses, counters, lastInc, content, prevContent,
                 passes, resolved, jobs, hook>>

(***************************************************************************)
(* The inputs the specifications draw from.                                *)
(***************************************************************************)
SeqsUpTo(S, n) == UNION {[1..k -> S] : k \in 0..n}

\* <w:r><w:rPr/><w:t>text</w:t><w:footnoteReference w:id=.../></w:r>, inside
\* the wrappers named by ancestors (nearest first).
Run(text, footnoteRef) ==
  [text |-> text, footnoteRef |-> footnoteRef, endnoteRef |-> "",
   rPr |-> NoRPr, ancestors |-> <<>>]
\* <w:p><w:pPr><w:pStyle/><w:numPr/><w:rPr/></w:pPr> runs </w:p>
NoInd == [present |-> FALSE, left |-> "", right |-> "", firstLine |-> ""]
Paragraph(pStyle, numId, ilvl, runs) ==
  [kind |-> "p", pStyle |-> pStyle, jc |-> Absent, ind |-> NoInd,
   numbering |-> [numId |-> numId, ilvl |-> ilvl], rPr |-> NoRPr, runs |-> runs]
SectionProperties ==
  [kind |-> "sectPr", pStyle |-> Undefined, jc |-> Absent, ind |-> NoInd,
   numbering |-> NoNumbering, rPr |-> NoRPr, runs |-> <<>>]
\* <w:tbl>, <w:tr> and <w:tc> elements with their child elements.
Table(rows) == [kind |-> "tbl", children |-> rows]
TableRow(cells) == [kind |-> "tr", children |-> cells]
TableCell(children) == [kind |-> "tc", children |-> children]
\* <w:style w:styleId=...><w:basedOn/><w:pPr/><w:rPr/></w:style>
NoPPr ==
  [present |-> FALSE, hasNumPr |-> FALSE, numbering |-> NoNumbering, jc |-> Absent,
   ind |-> [present |-> FALSE, left |-> "", right |-> "", firstLine |-> ""],
   rPr |-> NoRPr]
Style(basedOn, pPr, rPr) == [basedOn |-> basedOn, pPr |-> pPr, rPr |-> rPr]

\* <w:comment w:id=id><w:p w14:paraId=paraId><w:r><w:t>text</w:t></w:r></w:p></w:comment>
RawComment(id, paraId, text) ==
  [id |-> id, paras |-> <<[paraId |-> paraId, text |-> text]>>]
RawNote(id, type, text) ==
  [id |-> id, type |-> type, paras |-> <<[paraId |-> "", text |-> text]>>]

SampleDocument ==
  [hasBody |-> TRUE,
   body |-> <<Paragraph(Undefined, "1", 0, <<Run(<<"a">>, ""), Run(<<>>, "1")>>),
              Paragraph("ListStyle", Undefined, 0, <<Run(<<"b">>, "")>>),
              Paragraph(Undefined, "2", 0, <<Run(<<"c">>, "7")>>),
              Paragraph(Undefined, Undefined, 0, <<>>),
              SectionProperties>>]
SampleStyles ==
  [id \in {"ListStyle", "Base"} |->
     IF id = "ListStyle"
     THEN Style("Base", NoPPr, RPr([e \in {"i"} |-> ""]))
     ELSE Style(Undefined,
                [NoPPr EXCEPT !.present = TRUE, !.hasNumPr = TRUE,
                              !.numbering = [numId |-> "1", ilvl |-> 1]],
                NoRPr)]
SampleNumbering ==
  [abstractNums |->
     [a \in {"0"} |->
        [l \in 0..1 |->
           IF l = 0 THEN [numFmt |-> "decimal", lvlText |-> <<"%1", ".">>]
           ELSE [numFmt |-> "lowerLetter", lvlText |-> <<"%1", ".", "%2", ")">>]]],
   nums |-> [n \in {"1", "9"} |-> IF n = "1" THEN "0" ELSE "5"]]
SampleComments ==
  <<RawComment("0", "pA", <<"a">>), RawComment("1", "pB", <<"b">>)>>
SampleExtended == <<[paraId |-> "pB", done |-> "1", parent |-> "pA"]>>
SampleIds == <<[paraId |-> "pA", durableId |-> "d1"]>>
SampleFootnotes ==
  <<RawNote(<<"", "1">>, "separator", <<"s">>), RawNote(<<"1">>, "", <<"n">>)>>
SampleEndnotes == <<RawNote(<<"2">>, "normal", <<"e">>)>>

SamplePayload ==
  [k \in PartKeys |->
     CASE k = "document" -> SampleDocument
       [] k = "styles" -> SampleStyles
       [] k = "numbering" -> SampleNumbering
       [] k = "comments" -> SampleComments
       [] k = "commentsExtended" -> SampleExtended
       [] k = "commentsIds" -> SampleIds
       [] k = "footnotes" -> SampleFootnotes
       [] k = "endnotes" -> SampleEndnotes]

SampleParts == [k \in PartKeys |-> [status |-> "ok", payload |-> SamplePayload[k]]]

ArchiveOk == [ok |-> TRUE, thrown |-> [isError |-> FALSE, message |-> ""]]
\* What file.arrayBuffer() or JSZip.loadAsync rejects with: an Error with its
\* message, or a value that is not an Error.
Thrown ==
  {[isError |-> TRUE, message |-> "Failed to read file"],
   [isError |-> TRUE, message |-> "Invalid zip file"],
   [isError |-> FALSE, message |-> "rejected"]}

IdleApp == resolved = None /\ revision = None /\ jobs = EmptyMap /\ hook = None
Idle ==
  /\ result = None /\ prevResult = None /\ parses = 0
  /\ counters = createNumberingCounters /\ lastInc = None
  /\ content = None /\ prevContent = None /\ passes = 0
  /\ IdleApp

\* Threading inputs: every list of comments over the paragraph ids (or none),
\* every list of commentEx records, and commentsIds.xml present or not.
ThreadComments ==
  {[i \in 1..Len(ids) |-> RawComment(ToString(i - 1), ids[i], <<"a">>)] :
     ids \in SeqsUpTo(ParaIds \cup {""}, MaxComments)}
ThreadExtended ==
  SeqsUpTo([paraId : ParaIds, done : {""}, parent : ParaIds \cup {""}], MaxExt)

InitThread ==
  /\ \E cs \in ThreadComments, ex \in ThreadExtended,
        withExtended \in BOOLEAN, withIds \in BOOLEAN :
       /\ withExtended => ~withIds
       /\ ~withExtended => ex = <<>>
       /\ pkg = [archive |-> ArchiveOk,
                 env |-> [transformThrows |-> FALSE],
                 parts |-> [SampleParts EXCEPT
                              !["comments"].payload = cs,
                              !["commentsExtended"] =
                                 [status |-> IF withExtended THEN "ok" ELSE "absent",
                                  payload |-> ex],
                              !["commentsIds"].status =
                                 IF withIds THEN "ok" ELSE "absent"]]
  /\ Idle

SpecThread == InitThread /\ [][ParseDocx]_vars

\* Package inputs: every status of every part with at most MaxBadParts parts
\* unreadable, comment texts blank or not, the archive readable or not, the
\* body walk throwing or not.
PartsComments ==
  {[i \in 1..Len(texts) |-> RawComment(ToString(i - 1), "pA", texts[i])] :
     texts \in {<<>>, <<<<"a", " ">>>>, <<<<" ">>, <<"a">>>>, <<<<"a">>, <<>>, <<" ", "b">>>>}}
PartsStatuses ==
  UNION {{[k \in PartKeys |-> IF k \in bad THEN st[k] ELSE "ok"] :
            st \in [bad -> PartStatus \ {"ok"}]} :
         bad \in {b \in SUBSET PartKeys : Cardinality(b) <= MaxBadParts}}

InitParts ==
  /\ \/ \E t \in Thrown :
          pkg = [archive |-> [ok |-> FALSE, thrown |-> t],
                 env |-> [transformThrows |-> FALSE],
                 parts |-> SampleParts]
     \/ \E st \in PartsStatuses, cs \in PartsComments, throws \in BOOLEAN :
          /\ throws => st["document"] = "ok"
          /\ pkg = [archive |-> ArchiveOk,
                    env |-> [transformThrows |-> throws],
                    parts |-> [k \in PartKeys |->
                                 [status |-> st[k],
                                  payload |-> IF k = "comments" THEN cs
                                              ELSE SamplePayload[k]]]]
  /\ Idle

SpecParts == InitParts /\ [][ParseDocx]_vars

\* Numbering inputs: no counter yet, or the counter of list "1" created with
\* configured starts.
NumIds == {"1"}
InitNum ==
  /\ pkg = [archive |-> ArchiveOk, env |-> [transformThrows |-> FALSE],
            parts |-> SampleParts]
  /\ result = None /\ prevResult = None /\ parses = 0
  /\ lastInc = None
  /\ content = None /\ prevContent = None /\ passes = 0
  /\ IdleApp
  /\ \/ counters = createNumberingCounters
     \/ \E starts \in [Levels -> {0, 1}] :
          counters = MapSet(createNumberingCounters, "1", NewCounter(starts))

NextNum == \E numId \in NumIds, level \in Levels : IncrementStep(numId, level)
SpecNum == InitNum /\ [][NextNum]_vars

\* Transformation inputs: every body of up to MaxParas children, each a
\* paragraph (plain, numbered directly at a level, numbered through its
\* style) or a section-properties element.
BodyChildren ==
  {Paragraph(Undefined, Undefined, 0, <<Run(<<"x">>, "")>>),
   Paragraph("ListStyle", Undefined, 0, <<Run(<<"s">>, "")>>),
   SectionProperties}
  \cup {Paragraph(Undefined, n, l, <<Run(<<"y">>, "")>>) : n \in {"1", "2"}, l \in 0..1}

InitPass ==
  /\ \E body \in SeqsUpTo(BodyChildren, MaxParas) :
       pkg = [archive |-> ArchiveOk, env |-> [transformThrows |-> FALSE],
              parts |-> [SampleParts EXCEPT
                           !["document"].payload = [hasBody |-> TRUE, body |-> body]]]
  /\ Idle

SpecPass == InitPass /\ [][TransformPass]_vars

\* Run inputs: one paragraph of a styled text run, a note-reference run and
\* a plain text run.  The paragraph style "PS" (based on "PBase"), the
\* paragraph's own rPr, the character style "CS" and the run's own rPr each
\* declare some run properties or none; the styled run sits in a tracked
\* change wrapper or in none; the reference is to a defined note or not.
LayerRPrs ==
  {NoRPr, RPr([e \in {"b"} |-> ""]), RPr([e \in {"u"} |-> "single"]),
   RPr([e \in {"highlight", "color"} |-> IF e = "color" THEN "FF0000" ELSE "yellow"])}
RunRPrs ==
  LayerRPrs \cup {RPr([e \in {"b"} |-> "0"]), RPr([e \in {"u"} |-> "none"]),
                  RPr([e \in {"highlight"} |-> "none"]), RPr([e \in {"color"} |-> "auto"])}
BaseRPrs == {NoRPr, RPr([e \in {"u"} |-> ""])}
ParagraphRPrs == LayerRPrs \ {RPr([e \in {"b"} |-> ""])}
RunAncestors == {<<>>, <<"ins">>, <<"del">>, <<"smartTag", "moveTo">>}
NoteRefs == {[footnoteRef |-> f, endnoteRef |-> e] : f \in {"", "1", "7"}, e \in {"", "2", "7"}}
RunStyles(psR, baseR, csR) ==
  [id \in {"PS", "PBase", "CS"} |->
     CASE id = "PS" -> Style("PBase", NoPPr, psR)
       [] id = "PBase" -> Style(Undefined, NoPPr, baseR)
       [] OTHER -> Style(Undefined, NoPPr, csR)]
WithRStyle(rPr, rStyle) ==
  IF rStyle = Absent THEN rPr
  ELSE [present |-> TRUE, el |-> [rPr.el EXCEPT !["rStyle"] = rStyle]]

InitRun ==
  /\ \E pStyle \in {Undefined, "PS"}, psR \in LayerRPrs, baseR \in BaseRPrs,
        pR \in ParagraphRPrs, rStyle \in {Absent, "CS"}, csR \in ParagraphRPrs, rR \in RunRPrs,
        anc \in RunAncestors, ref \in NoteRefs :
       /\ pStyle = Undefined => psR = NoRPr /\ baseR = NoRPr
       /\ baseR # NoRPr => psR \in {NoRPr, RPr([e \in {"b"} |-> ""])}
       /\ rStyle = Absent => csR = NoRPr
       /\ ref.footnoteRef = "" \/ ref.endnoteRef = ""
       /\ anc # <<>> => ref.footnoteRef = "7"
       /\ pkg = [archive |-> ArchiveOk, env |-> [transformThrows |-> FALSE],
                 parts |-> [SampleParts EXCEPT
                   !["styles"].payload = RunStyles(psR, baseR, csR),
                   !["document"].payload =
                      [hasBody |-> TRUE,
                       body |-> <<[Paragraph(pStyle, Undefined, 0,
                                     <<[Run(<<"a">>, "") EXCEPT
                                          !.rPr = WithRStyle(rR, rStyle), !.ancestors = anc],
                                       [Run(<<>>, ref.footnoteRef) EXCEPT
                                          !.endnoteRef = ref.endnoteRef],
                                       Run(<<"t">>, "")>>)
                                   EXCEPT !.rPr = pR]>>]]]
  /\ Idle

SpecRun == InitRun /\ [][TransformPass]_vars

\* Style catalogs: styles "A", "B" and "C", each based on nothing, on one of
\* the three (itself included, so that chains may loop) or on the unknown id
\* "X", and each declaring its properties or none.
StyleIds == {"A", "B", "C"}
UnknownStyleId == "X"
Ind(left, right) == [present |-> TRUE, left |-> left, right |-> right, firstLine |-> ""]
DeclaredPPr(id) ==
  CASE id = "A" -> [NoPPr EXCEPT !.present = TRUE, !.jc = "center"]
    [] id = "B" -> [NoPPr EXCEPT !.present = TRUE, !.hasNumPr = TRUE,
                                 !.numbering = [numId |-> "1", ilvl |-> 1],
                                 !.ind = Ind("10", "")]
    [] OTHER -> [NoPPr EXCEPT !.present = TRUE, !.hasNumPr = TRUE,
                                !.numbering = [numId |-> "2", ilvl |-> 0],
                                !.jc = "both", !.ind = Ind("20", "5")]
DeclaredRPr(id) ==
  CASE id = "A" -> RPr([e \in {"b"} |-> ""])
    [] id = "B" -> RPr([e \in {"u", "color"} |-> IF e = "u" THEN "single" ELSE "FF0000"])
    [] OTHER -> RPr([e \in {"i", "u"} |-> IF e = "u" THEN "double" ELSE ""])
StyleCatalogs ==
  {[id \in StyleIds |->
      IF declares[id] THEN Style(basedOn[id], DeclaredPPr(id), DeclaredRPr(id))
      ELSE Style(basedOn[id], NoPPr, NoRPr)] :
     basedOn \in [StyleIds -> StyleIds \cup {Undefined, UnknownStyleId}],
     declares \in [StyleIds -> BOOLEAN]}

InitStyles ==
  /\ \E catalog \in StyleCatalogs :
       pkg = [archive |-> ArchiveOk, env |-> [transformThrows |-> FALSE],
              parts |-> [SampleParts EXCEPT !["styles"].payload = catalog]]
  /\ Idle

NextStyles == \E styleId \in StyleIds \cup {UnknownStyleId} : Resolve(styleId)
SpecStyles == InitStyles /\ [][NextStyles]_vars

\* Table inputs: every body of up to MaxParas children, each a plain, an
\* empty or a numbered paragraph, a section-properties element, an empty
\* table, a table of two cells or a table with a table nested in its cell;
\* footnotes.xml and endnotes.xml present or absent.
NumberedParagraph == Paragraph(Undefined, "1", 0, <<Run(<<"y">>, "")>>)
EmptyParagraph == Paragraph(Undefined, Undefined, 0, <<>>)
FlatTable ==
  Table(<<TableRow(<<TableCell(<<NumberedParagraph>>), TableCell(<<>>)>>)>>)
NestedTable ==
  Table(<<TableRow(<<TableCell(<<EmptyParagraph,
                                 Table(<<TableRow(<<TableCell(<<NumberedParagraph>>)>>)>>)>>)>>)>>)
TableBodyChildren ==
  {Paragraph(Undefined, Undefined, 0, <<Run(<<"x">>, "")>>), EmptyParagraph,
   NumberedParagraph, SectionProperties, Table(<<>>), FlatTable, NestedTable}

InitTable ==
  /\ \E body \in SeqsUpTo(TableBodyChildren, MaxParas), notes \in {"ok", "absent"} :
       pkg = [archive |-> ArchiveOk, env |-> [transformThrows |-> FALSE],
              parts |-> [SampleParts EXCEPT
                           !["document"].payload = [hasBody |-> TRUE, body |-> body],
                           !["footnotes"].status = notes,
                           !["endnotes"].status = notes]]
  /\ Idle

SpecTable == InitTable /\ [][TransformPass]_vars

\* Concurrent inputs: each document is one of three packages (numbered
\* paragraphs with every part, a numbered paragraph with few parts, an
\* unreadable archive); both parseDocxComments calls have been made.
ConcurrentFiles ==
  {[archive |-> ArchiveOk, env |-> [transformThrows |-> FALSE],
    parts |-> [k \in PartKeys |->
                 IF k \in {"document", "numbering", "comments", "footnotes"}
                 THEN SampleParts[k] ELSE [status |-> "absent", payload |-> <<>>]]],
   [archive |-> ArchiveOk, env |-> [transformThrows |-> FALSE],
    parts |-> [k \in PartKeys |->
                 IF k = "document"
                 THEN [status |-> "ok",
                       payload |-> [hasBody |-> TRUE,
                                    body |-> <<NumberedParagraph, FlatTable>>]]
                 ELSE IF k \in {"styles", "endnotes"} THEN SampleParts[k]
                 ELSE [status |-> "absent", payload |-> <<>>]]],
   [archive |-> [ok |-> FALSE, thrown |-> [isError |-> TRUE, message |-> "Invalid zip file"]],
    env |-> [transformThrows |-> FALSE], parts |-> SampleParts]}

InitConc ==
  /\ pkg = [archive |-> ArchiveOk, env |-> [transformThrows |-> FALSE],
            parts |-> SampleParts]
  /\ result = None /\ prevResult = None /\ parses = 0
  /\ counters = createNumberingCounters /\ lastInc = None
  /\ content = None /\ prevContent = None /\ passes = 0
  /\ resolved = None /\ revision = None /\ hook = None
  /\ \E files \in [DocIds -> ConcurrentFiles] :
       jobs = [d \in DocIds |->
                 [file |-> files[d], stage |-> "called", extracted |-> {},
                  overlapped |-> FALSE, result |-> None]]

NextConc ==
  \E d \in DocIds :
    \/ LoadArchive(d)
    \/ \E k \in PartKeys : ExtractPart(d, k)
    \/ FinishParse(d)
SpecConc == InitConc /\ [][NextConc]_vars

\* Hook inputs: the files a user picks (two with the same name and
\* different sizes, one that is not a .docx), each holding the sample
\* package; the hook starts as useState initialises it.
Files ==
  {[name |-> "a.docx", extension |-> ".docx", type |-> "", size |-> 1],
   [name |-> "a.docx", extension |-> ".docx", type |-> DocxMimeType, size |-> 2],
   [name |-> "notes.txt", extension |-> ".txt", type |-> "text/plain", size |-> 1]}
UploadIds == {RandomUUID(n) : n \in 1..MaxUploads}

InitHook ==
  /\ pkg = [archive |-> ArchiveOk, env |-> [transformThrows |-> FALSE],
            parts |-> SampleParts]
  /\ result = None /\ prevResult = None /\ parses = 0
  /\ counters = createNumberingCounters /\ lastInc = None
  /\ content = None /\ prevContent = None /\ passes = 0
  /\ resolved = None /\ revision = None /\ jobs = EmptyMap
  /\ hook = UseState

NextHook ==
  \/ Render
  \/ \E file \in Files : AddDocument(file)
  \/ \E id \in UploadIds :
       \/ CompleteParse(id)
       \/ RemoveDocument(id)
SpecHook == InitHook /\ [][NextHook]_vars

\* List inputs: every body of up to MaxListParas paragraphs, each with a
\* style reference (none, the style "List2" or the unknown id "X") and a
\* numPr of its own (none, one of list "1" at level 1, one of list "2" at
\* level 0, one with an ilvl only); the style "List2" is based on "List", and each of the
\* two declares a numPr (with or without numId) or none.
NumPr(numId, ilvl) ==
  [NoPPr EXCEPT !.present = TRUE, !.hasNumPr = TRUE,
                !.numbering = [numId |-> numId, ilvl |-> ilvl]]
ListCatalog(own, base) ==
  [id \in {"List2", "List"} |->
     IF id = "List2" THEN Style("List", own, NoRPr) ELSE Style(Undefined, base, NoRPr)]
ListParagraphs ==
  {Paragraph(pStyle, numPr[1], numPr[2], <<Run(<<"x">>, "")>>) :
     pStyle \in {Undefined, "List2", "X"},
     numPr \in {<<Undefined, 0>>, <<"1", 1>>, <<"2", 0>>, <<Undefined, 2>>}}
InitList ==
  /\ \E body \in SeqsUpTo(ListParagraphs, MaxListParas),
        own \in {NoPPr, NumPr("2", 1), NumPr(Undefined, 1)},
        base \in {NoPPr, NumPr("1", 0)} :
       pkg = [archive |-> ArchiveOk, env |-> [transformThrows |-> FALSE],
              parts |-> [SampleParts EXCEPT
                           !["document"].payload = [hasBody |-> TRUE, body |-> body],
                           !["styles"].payload = ListCatalog(own, base)]]
  /\ Idle

SpecList == InitList /\ [][TransformPass]_vars

\* Fallback inputs: numbering.xml defines list "1" (levels 0 and 1) and list
\* "3", whose abstractNum has a level 1 only; list "2" has no num element
\* and list "9" names an abstractNum that does not exist.  Every body of up
\* to MaxParas paragraphs, each plain or numbered directly in one of the
\* four lists at level 0, or in list "2" or "3" at level 1.
FallbackNumbering ==
  [abstractNums |->
     [a \in {"0", "1"} |->
        IF a = "0" THEN SampleNumbering.abstractNums["0"]
        ELSE [l \in {1} |-> [numFmt |-> "lowerLetter", lvlText |-> <<"%2", ")">>]]],
   nums |-> [n \in {"1", "3", "9"} |-> CASE n = "1" -> "0" [] n = "3" -> "1" [] OTHER -> "5"]]
FallbackParagraphs ==
  {Paragraph(Undefined, Undefined, 0, <<Run(<<"x">>, "")>>)}
  \cup {Paragraph(Undefined, n, 0, <<Run(<<"y">>, "")>>) : n \in {"1", "2", "3", "9"}}
  \cup {Paragraph(Undefined, n, 1, <<Run(<<"z">>, "")>>) : n \in {"2", "3"}}
InitFallback ==
  /\ \E body \in SeqsUpTo(FallbackParagraphs, MaxParas) :
       pkg = [archive |-> ArchiveOk, env |-> [transformThrows |-> FALSE],
              parts |-> [SampleParts EXCEPT
                           !["document"].payload = [hasBody |-> TRUE, body |-> body],
                           !["numbering"].payload = FallbackNumbering]]
  /\ Idle

SpecFallback == InitFallback /\ [][TransformPass]_vars

\* Template inputs: list "1" with levels 0 and 1, each with a numbering kind
\* and a level-text template (split into placeholders and literal text:
\* one placeholder, two, the same placeholder twice, a placeholder of a
\* deeper level); every body of up to MaxListParas paragraphs of the list
\* at level 0 or 1.
TemplateKinds == {"decimal", "lowerLetter", "upperRoman"}
LevelTexts ==
  {<<"%1", ".">>, <<"%1", ".", "%2", ")">>, <<"%2", "-", "%1">>,
   <<"%1", "/", "%1">>, <<"(", "%3", ")">>}
TemplateNumbering(levels) ==
  [abstractNums |-> [a \in {"0"} |-> levels], nums |-> [n \in {"1"} |-> "0"]]
InitTemplate ==
  /\ \E body \in SeqsUpTo({Paragraph(Undefined, "1", l, <<Run(<<"x">>, "")>>) : l \in 0..1},
                          MaxListParas),
        levels \in [0..1 -> [numFmt : TemplateKinds, lvlText : LevelTexts]] :
       pkg = [archive |-> ArchiveOk, env |-> [transformThrows |-> FALSE],
              parts |-> [SampleParts EXCEPT
                           !["document"].payload = [hasBody |-> TRUE, body |-> body],
                           !["numbering"].payload = TemplateNumbering(levels)]]
  /\ Idle

SpecTemplate == InitTemplate /\ [][TransformPass]_vars

\* Paragraph-property inputs: one paragraph of text, with or without the
\* style "S" (based on "SBase") and with or without a reference to list "1";
\* its own pPr, level 0 of the list, "S" and "SBase" each declare an
\* alignment or none and an indentation with some of its attributes or none.
Ind3(left, right, firstLine) ==
  [present |-> TRUE, left |-> left, right |-> right, firstLine |-> firstLine]
PPrOf(jc, ind) == [NoPPr EXCEPT !.present = TRUE, !.jc = jc, !.ind = ind]
IndentNumbering(pPr) ==
  [abstractNums |->
     [a \in {"0"} |-> [l \in {0} |-> [numFmt |-> "decimal", lvlText |-> <<"%1", ".">>,
                                      pPr |-> pPr]]],
   nums |-> [n \in {"1"} |-> "0"]]
IndentCatalog(own, base) ==
  [id \in {"S", "SBase"} |->
     IF id = "S" THEN Style("SBase", own, NoRPr) ELSE Style(Undefined, base, NoRPr)]
InitIndent ==
  /\ \E pStyle \in {Undefined, "S"}, numId \in {Undefined, "1"},
        jc \in {Absent, "right"}, ind \in {NoInd, Ind3("0", "", ""), Ind3("", "8", "23")},
        levelJc \in {Absent, "center"},
        levelInd \in {NoInd, Ind3("30", "30", ""), Ind3("", "", "30")},
        ownJc \in {Absent, "both"},
        ownInd \in {NoInd, Ind3("45", "", "45"), Ind3("", "", "")},
        base \in {NoPPr, PPrOf("start", Ind3("60", "60", "60"))} :
       pkg = [archive |-> ArchiveOk, env |-> [transformThrows |-> FALSE],
              parts |-> [SampleParts EXCEPT
                           !["document"].payload =
                             [hasBody |-> TRUE,
                              body |-> <<[Paragraph(pStyle, numId, 0, <<Run(<<"x">>, "")>>)
                                            EXCEPT !.jc = jc, !.ind = ind]>>],
                           !["numbering"].payload = IndentNumbering(PPrOf(levelJc, levelInd)),
                           !["styles"].payload = IndentCatalog(PPrOf(ownJc, ownInd), base)]]
  /\ Idle

SpecIndent == InitIndent /\ [][TransformPass]_vars

\* Revision inputs: a node and up to MaxDepth ancestors, each an insertion
\* (one of two), a deletion, a move source, a move target, a run or a
\* paragraph element.
Element(tagName, id) == [tagName |-> tagName, id |-> id]
NodeElements ==
  {Element("w:ins", "1"), Element("w:ins", "2"), Element("del", "3"),
   Element("w:moveFrom", "4"), Element("w:moveTo", "5"),
   Element("w:r", Undefined), Element("w:p", Undefined)}
NodePaths == SeqsUpTo(NodeElements, MaxDepth + 1) \ {<<>>}
InitRevision ==
  /\ pkg = [archive |-> ArchiveOk, env |-> [transformThrows |-> FALSE],
            parts |-> SampleParts]
  /\ result = None /\ prevResult = None /\ parses = 0
  /\ counters = createNumberingCounters /\ lastInc = None
  /\ content = None /\ prevContent = None /\ passes = 0
  /\ resolved = None /\ jobs = EmptyMap /\ hook = None
  /\ \E path \in NodePaths :
       revision = Some([path |-> path, called |-> FALSE, returned |-> None])

SpecRevision == InitRevision /\ [][Detect]_vars

\* Orphan inputs: every list of up to MaxComments comments over the
\* paragraph ids (or none), and a commentsExtended.xml that gives "pA" a
\* parent (the id "pZ" no comment has, or "pB") and "pB" a parent ("pA",
\* "pZ") or none.
OrphanExtended ==
  {<<[paraId |-> "pA", done |-> "", parent |-> a],
     [paraId |-> "pB", done |-> "1", parent |-> b]>> :
     a \in {"pZ", "pB"}, b \in {"", "pA", "pZ"}}
InitOrphan ==
  /\ \E cs \in ThreadComments, ex \in OrphanExtended :
       pkg = [archive |-> ArchiveOk, env |-> [transformThrows |-> FALSE],
              parts |-> [SampleParts EXCEPT !["comments"].payload = cs,
                                            !["commentsExtended"].payload = ex]]
  /\ Idle

SpecOrphan == InitOrphan /\ [][ParseDocx]_vars

\* Note inputs: footnotes.xml with up to MaxNotes footnote elements, each
\* with id 1 or 2 and no type, the type separator or the type
\* continuationNotice, or without text; endnotes.xml with a normal endnote,
\* a continuation separator or nothing; a body of one paragraph with a text
\* run, a footnote reference and an endnote reference.
RawFootnotes ==
  {RawNote(<<id>>, type, <<"n", id>>) :
     id \in {"1", "2"}, type \in {"", "separator", "continuationNotice"}}
  \cup {RawNote(<<"2">>, "", <<>>)}
RawEndnotes ==
  {<<>>, <<RawNote(<<"2">>, "normal", <<"e">>)>>,
   <<RawNote(<<"1">>, "continuationSeparator", <<"s">>)>>}
ReferenceTo(footnoteRef, endnoteRef) ==
  [Run(<<>>, footnoteRef) EXCEPT !.endnoteRef = endnoteRef]
InitNotes ==
  /\ \E footnotes \in SeqsUpTo(RawFootnotes, MaxNotes), endnotes \in RawEndnotes,
        f \in {"1", "2"}, e \in {"1", "2"} :
       pkg = [archive |-> ArchiveOk, env |-> [transformThrows |-> FALSE],
              parts |-> [SampleParts EXCEPT
                           !["document"].payload =
                             [hasBody |-> TRUE,
                              body |-> <<Paragraph(Undefined, Undefined, 0,
                                                   <<Run(<<"x">>, ""), ReferenceTo(f, ""),
                                                     ReferenceTo("", e)>>)>>],
                           !["footnotes"].payload = footnotes,
                           !["endnotes"].payload = endnotes]]
  /\ Idle

SpecNotes == InitNotes /\ [][TransformPass]_vars

\* Processing inputs: a package of one paragraph and no other part, whose
\* parse returns without an error, and one whose archive cannot be opened,
\* whose parse returns with an error; the awaited parse may also reject,
\* with an Error or with a value that is not an Error.  The promise of a
\* pending parse settles: the parse awaits the archive and a bounded number
\* of parts.
TextOnlyParts ==
  [k \in PartKeys |->
     IF k = "document"
     THEN [status |-> "ok",
           payload |-> [hasBody |-> TRUE,
                        body |-> <<Paragraph(Undefined, Undefined, 0, <<Run(<<"x">>, "")>>)>>]]
     ELSE [SampleParts[k] EXCEPT !.status = "absent"]]
ProcessingPackages ==
  {[archive |-> ArchiveOk, env |-> [transformThrows |-> FALSE], parts |-> TextOnlyParts],
   [archive |-> [ok |-> FALSE, thrown |-> [isError |-> TRUE, message |-> "Invalid zip file"]],
    env |-> [transformThrows |-> FALSE], parts |-> TextOnlyParts]}
Rejections == {[isError |-> TRUE, message |-> "boom"], [isError |-> FALSE, message |-> ""]}
InitProcessing ==
  /\ pkg \in ProcessingPackages
  /\ result = None /\ prevResult = None /\ parses = 0
  /\ counters = createNumberingCounters /\ lastInc = None
  /\ content = None /\ prevContent = None /\ passes = 0
  /\ resolved = None /\ revision = None /\ jobs = EmptyMap
  /\ hook = UseState
Settle(id) == (\E error \in Rejections : FailParse(id, error)) \/ CompleteParse(id)
NextProcessing ==
  \/ Render
  \/ \E file \in Files : AddDocument(file)
  \/ \E id \in UploadIds :
       \/ CompleteParse(id)
       \/ \E error \in Rejections : FailParse(id, error)
       \/ RemoveDocument(id)
SpecProcessing ==
  InitProcessing /\ [][NextProcessing]_vars /\ \A id \in UploadIds : WF_vars(Settle(id))

\* Selection inputs: the ids of two comments; the hook starts as useState
\* initialises it and up to MaxCalls callbacks run before React renders.
CommentIds == {"uuid-1-0", "uuid-1-1"}
InitSelection ==
  /\ pkg = [archive |-> ArchiveOk, env |-> [transformThrows |-> FALSE],
            parts |-> SampleParts]
  /\ result = None /\ prevResult = None /\ parses = 0
  /\ counters = createNumberingCounters /\ lastInc = None
  /\ content = None /\ prevContent = None /\ passes = 0
  /\ resolved = None /\ revision = None /\ jobs = EmptyMap
  /\ hook = UseState
NextSelection ==
  \/ Render
  \/ \E id \in CommentIds \cup {Undefined} : SetSelectedComment(id)
  \/ \E id \in CommentIds :
       \/ SelectComment(id)
       \/ DeselectComment(id)
       \/ \E multiSelect \in BOOLEAN : ToggleCommentSelection(id, multiSelect)
  \/ ClearSelectedComments
SpecSelection == InitSelection /\ [][NextSelection]_vars

(***************************************************************************)
(* Claims.                                                                 *)
(***************************************************************************)
Parsed == parses >= 1
Comments == result.comments
CommentIndexes == 1..Len(Comments)
Elements(seq) == {seq[i] : i \in 1..Len(seq)}
ChildrenLists(r) == [i \in 1..Len(r.comments) |-> r.comments[i].children]
IsBlank(v) == v \in {Undefined, ""}

C2_ChildrenFromOtherComments ==
  Parsed =>
    \A b \in CommentIndexes :
      \A e \in Elements(Comments[b].children) :
        \E a \in CommentIndexes \ {b} :
          /\ Comments[a].paraId = e
          /\ Comments[a].parentId = Comments[b].paraId

\* The texts of the paragraphs of the comment records of comments.xml; a part
\* that is not readable XML holds no record.
RecordTexts(p) ==
  IF p.parts["comments"].status # "ok" THEN <<>>
  ELSE [i \in 1..Len(p.parts["comments"].payload) |->
          {p.parts["comments"].payload[i].paras[j].text :
             j \in 1..Len(p.parts["comments"].payload[i].paras)}]
\* The records with some text, and those with text other than whitespace.
RecordsWithText(p) ==
  Cardinality({i \in 1..Len(RecordTexts(p)) : \E t \in RecordTexts(p)[i] : t # <<>>})
RecordsWithVisibleText(p) ==
  Cardinality({i \in 1..Len(RecordTexts(p)) : \E t \in RecordTexts(p)[i] : Trim(t) # <<>>})

\* C3, as stated: for every package with a parsable document.xml, the number
\* of comments returned equals the number of comment records of comments.xml
\* that have non-empty text, whatever the state of commentsExtended.xml and
\* commentsIds.xml.
C3_AsStated ==
  (Parsed /\ pkg.archive.ok /\ pkg.parts["document"].status = "ok")
    => Len(result.comments) = RecordsWithText(pkg)

\* C3, amended: the number of comments returned equals the number of comment
\* records of comments.xml whose text is non-empty after trimming whitespace
\* (a record holding only whitespace is not returned), whatever the state of
\* commentsExtended.xml and commentsIds.xml: the count depends on
\* comments.xml alone.
C3_CommentCount ==
  (Parsed /\ pkg.archive.ok /\ pkg.parts["document"].status = "ok")
    => Len(result.comments) = RecordsWithVisibleText(pkg)

\* Comments with and without text, threaded through commentsExtended.xml.
C3_Witness ==
  /\ Parsed /\ pkg.archive.ok /\ pkg.parts["document"].status = "ok"
  /\ pkg.parts["commentsExtended"].status = "ok"
  /\ pkg.parts["commentsIds"].status = "malformed"
  /\ Len(result.comments) = 1
  /\ RecordsWithText(pkg) = 2

NoPartialResult(r) ==
  /\ r.comments = <<>> /\ r.footnotes = <<>> /\ r.endnotes = <<>>
  /\ r.transformedContent = None

\* C4: when document.xml is absent, cannot be extracted or cannot be parsed,
\* the result has empty comments, footnotes and endnotes, a non-empty error
\* and no transformedContent, even when the other parts were parsed.
C4_MissingDocument ==
  (Parsed /\ pkg.archive.ok /\ pkg.parts["document"].status # "ok")
    => /\ NoPartialResult(result)
       /\ ~IsBlank(result.error)

\* document.xml is malformed while comments.xml and footnotes.xml hold records.
C4_Witness ==
  /\ Parsed /\ pkg.archive.ok
  /\ pkg.parts["document"].status = "malformed"
  /\ pkg.parts["footnotes"].status = "ok"
  /\ RecordsWithVisibleText(pkg) > 0
  /\ result.error = "Required document.xml not found in .docx file"

\* C5: when reading the file or opening the archive fails, the call returns
\* a result (it does not throw) whose error is the failure's message (the
\* text "Unknown parsing error" when the rejection is not an Error) and
\* whose comments, footnotes, endnotes and transformedContent are empty.
C5_ArchiveFailure ==
  (Parsed /\ ~pkg.archive.ok)
    => /\ "error" \in DOMAIN result
       /\ NoPartialResult(result)
       /\ pkg.archive.thrown.isError => result.error = pkg.archive.thrown.message
       /\ ~pkg.archive.thrown.isError => result.error = "Unknown parsing error"

C5_Witness ==
  /\ Parsed /\ ~pkg.archive.ok
  /\ result.error = "Invalid zip file"

\* C6: every result has exactly one of a non-empty error string and a
\* transformedContent with html and plainText.
C6_ErrorXorContent ==
  Parsed =>
    /\ ~IsBlank(result.error) <=> result.transformedContent = None
    /\ result.transformedContent # None =>
         /\ result.transformedContent[1].html # <<>>
         /\ result.transformedContent[1].plainText # <<>>

\* A success after all optional parts were read, and no error.
C6_Witness ==
  /\ Parsed /\ pkg.archive.ok /\ ~pkg.env.transformThrows
  /\ \A k \in PartKeys : pkg.parts[k].status = "ok"
  /\ result.error = Undefined
  /\ Len(result.transformedContent[1].html) > 1

WithoutThrow(p) == [p EXCEPT !.env.transformThrows = FALSE]
PlaceholderContent ==
  [html |-> <<[tag |-> "p", prefix |-> <<>>,
               content |-> <<"Error transforming document content to HTML.">>]>>,
   plainText |-> <<"Error transforming document content to HTML.">>]

\* C7: when transformDocumentToHtml throws, the result still holds the
\* comments, footnotes and endnotes extracted (those of the same parse
\* without the throw), transformedContent is the placeholder error
\* paragraph, and error is undefined.
C7_TransformFailure ==
  (Parsed /\ pkg.archive.ok /\ pkg.env.transformThrows)
    => /\ result.comments = parseDocxComments(WithoutThrow(pkg), DocumentId).result.comments
       /\ result.footnotes = parseDocxComments(WithoutThrow(pkg), DocumentId).result.footnotes
       /\ result.endnotes = parseDocxComments(WithoutThrow(pkg), DocumentId).result.endnotes
       /\ result.transformedContent = Some(PlaceholderContent)
       /\ result.error = Undefined

C7_Witness ==
  /\ Parsed /\ pkg.archive.ok /\ pkg.env.transformThrows
  /\ result.comments # <<>>
  /\ result.footnotes # <<>>
  /\ result.endnotes # <<>>

\* The package with part k removed from the archive.
WithoutPart(p, k) == [p EXCEPT !.parts[k] = [status |-> "absent", payload |-> <<>>]]

\* C8: an optional part that is absent, fails to extract or fails XML parsing
\* leaves error undefined, and the whole result (the data of every other
\* part included) is the one of the package without that part.
C8_OptionalPartDegrades ==
  (Parsed /\ pkg.archive.ok /\ pkg.parts["document"].status = "ok")
    => /\ result.error = Undefined
       /\ \A k \in OptionalParts :
            pkg.parts[k].status # "ok"
              => result = parseDocxComments(WithoutPart(pkg, k), DocumentId).result

\* comments.xml is malformed and the footnotes and the document still come out.
C8_Witness ==
  /\ Parsed /\ pkg.archive.ok /\ ~pkg.env.transformThrows
  /\ pkg.parts["comments"].status = "malformed"
  /\ pkg.parts["comments"].payload # <<>>
  /\ pkg.parts["numbering"].status = "corrupt"
  /\ result.comments = <<>>
  /\ result.footnotes # <<>>
  /\ result.transformedContent # None

\* C9: incrementCounter(counter, n) raises level n by exactly 1, resets every
\* deeper level to its configured start, leaves every shallower level
\* unchanged and returns the new value at level n, after any sequence of
\* increments.
C9_IncrementCounter ==
  lastInc # None =>
    LET call == lastInc[1]
    IN  /\ call.after.counters[call.level] = call.before.counters[call.level] + 1
        /\ \A l \in Levels : l > call.level => call.after.counters[l] = call.before.starts[l]
        /\ \A l \in Levels : l < call.level => call.after.counters[l] = call.before.counters[l]
        /\ call.returned = call.after.counters[call.level]
        /\ call.after.starts = call.before.starts
        /\ counters[call.numId] = call.after

\* An increment at a level whose deeper level had moved off a non-zero start.
C9_Witness ==
  /\ lastInc # None
  /\ lastInc[1].level = 0
  /\ lastInc[1].before.counters[0] >= 1
  /\ lastInc[1].before.starts[1] = 1
  /\ lastInc[1].before.counters[1] > lastInc[1].before.starts[1]

Passed == passes >= 1
Body == pkg.parts["document"].payload.body
Catalog == parseStyleDefinitions(TRUE, pkg.parts["styles"].payload)
RunContext == [styles |-> Catalog]
StyledRun == Body[1].runs[1]
ReferenceRun == Body[1].runs[2]
\* The run properties each layer of the styled run declares, highest first.
OrEmpty(props) == IF props = None THEN EmptyProps ELSE props[1]
DirectLayer == extractRunProperties(StyledRun.rPr)
CharacterStyleLayer ==
  IF DirectLayer["rStyle"] = Undefined THEN EmptyProps
  ELSE OrEmpty(getStyleRunProperties(DirectLayer["rStyle"], Catalog, {}))
ParagraphLayer == extractRunProperties(Body[1].rPr)
ParagraphStyleLayer ==
  IF Body[1].pStyle = Undefined THEN EmptyProps
  ELSE OrEmpty(getStyleRunProperties(Body[1].pStyle, Catalog, {}))
Layers == <<DirectLayer, CharacterStyleLayer, ParagraphLayer, ParagraphStyleLayer>>
SettingIn(layers, f) == {i \in 1..4 : layers[i][f] # Undefined}
LayersSetting(f) == SettingIn(Layers, f)
Highest(S) == CHOOSE i \in S : \A j \in S : i <= j
Effective == MergedRunProps(StyledRun, RunContext, extractParagraphProperties(Body[1]))
\* The tokens of the styled run's markup in the emitted paragraph.
StyledRunHtml == transformRun(StyledRun, RunContext, extractParagraphProperties(Body[1]))
Tokens(seq) == {seq[i] : i \in 1..Len(seq)}
EmittedTokens == Tokens(content[1].html[1].content)
InheritsUnderline ==
  \E i \in 2..4 : Layers[i]["underline"] \notin {Undefined, "none"}

C14_BoldCancel ==
  Passed /\ ParagraphStyleLayer["bold"] # Undefined /\ StyledRun.rPr.el["b"] = "0" =>
    "font-weight:" \notin Tokens(StyledRunHtml)

\* C16: a footnote or endnote reference whose id is in the note map is
\* emitted as a superscript anchor of that note; one whose id is not in the
\* map leaves no markup, the text of the runs around it is emitted as
\* without the reference, no note block of that id is appended, and the pass
\* returns content.
NoteIds(notes) == {OriginalId(notes[i]) : i \in 1..Len(notes)}
Extracted == ExtractedResult(pkg, DocumentId)
WithoutReference ==
  [Body[1] EXCEPT !.runs = <<Body[1].runs[1], Body[1].runs[3]>>]
ParagraphContext ==
  [notes |-> createNoteContext(Extracted.footnotes, Extracted.endnotes),
   counters |-> createNumberingCounters,
   definitions |-> parseNumberingDefinitions(TRUE, pkg.parts["numbering"].payload),
   styles |-> Catalog]
AnchorOf(run) ==
  IF run.footnoteRef # "" THEN FootnoteAnchor(run.footnoteRef)
  ELSE EndnoteAnchor(run.endnoteRef)
Defined(run) ==
  \/ run.footnoteRef # "" /\ run.footnoteRef \in NoteIds(Extracted.footnotes)
  \/ run.footnoteRef = "" /\ run.endnoteRef \in NoteIds(Extracted.endnotes)
IsReference(run) == run.footnoteRef # "" \/ run.endnoteRef # ""
C16_NoteReference ==
  Passed /\ IsReference(ReferenceRun) =>
    LET plain == transformParagraph(WithoutReference, ParagraphContext).html.content
        emitted == content[1].html[1].content
        styled == Len(StyledRunHtml)
    IN  /\ Defined(ReferenceRun) =>
             emitted = SubSeq(plain, 1, styled) \o AnchorOf(ReferenceRun)
                       \o SubSeq(plain, styled + 1, Len(plain))
        /\ ~Defined(ReferenceRun) =>
             /\ emitted = plain
             /\ \A i \in 2..Len(content[1].html) :
                  \A j \in 1..Len(content[1].html[i].content) :
                    AnchorOf(ReferenceRun)[2] \notin Tokens(content[1].html[i].content[j].prefix)

\* C16 witness: after a pass, a reference to an undefined note beside text.
C16_Witness ==
  /\ Passed /\ IsReference(ReferenceRun) /\ ~Defined(ReferenceRun)
  /\ <<"t">> = SubSeq(content[1].html[1].content, Len(content[1].html[1].content), Len(content[1].html[1].content))
  /\ Len(content[1].html) > 1


(***************************************************************************)
(* Style resolution (SpecStyles).                                          *)
(***************************************************************************)
\* The styles a resolution visits: from the id along basedOn, up to the
\* first id that is unknown, missing or already on the chain.
RECURSIVE ChainFrom(_, _)
ChainFrom(id, seen) ==
  IF id = Undefined \/ id \notin DOMAIN Catalog \/ id \in seen THEN <<>>
  ELSE <<id>> \o ChainFrom(Catalog[id].basedOn, seen \cup {id})
FirstIn(chain, ids) ==
  IF \E i \in 1..Len(chain) : chain[i] \in ids
  THEN Some(chain[CHOOSE i \in 1..Len(chain) :
                    chain[i] \in ids /\ \A j \in 1..(i - 1) : chain[j] \notin ids])
  ELSE None
ChainRunProperties(chain) ==
  [f \in RunFields |->
     LET first == FirstIn(chain, {id \in DOMAIN Catalog :
                                    /\ Catalog[id].runProperties # None
                                    /\ Catalog[id].runProperties[1][f] # Undefined})
     IN  IF first = None THEN Undefined ELSE Catalog[first[1]].runProperties[1][f]]
ChainNumbering(chain) ==
  LET first == FirstIn(chain, {id \in DOMAIN Catalog : Catalog[id].hasNumbering})
  IN  IF first = None THEN NoNumbering ELSE Catalog[first[1]].numbering
WithParagraphProps == {id \in DOMAIN Catalog : Catalog[id].paragraphProps # None}
WithIndentation == {id \in WithParagraphProps : Catalog[id].paragraphProps[1].indentation # None}
ChainAlignment(chain) ==
  LET first == FirstIn(chain, {id \in WithParagraphProps :
                                 Catalog[id].paragraphProps[1].alignment # Undefined})
  IN  IF first = None THEN Undefined ELSE Catalog[first[1]].paragraphProps[1].alignment
ChainIndentation(chain) ==
  IF FirstIn(chain, WithIndentation) = None THEN None
  ELSE Some([f \in IndFields |->
               LET first == FirstIn(chain, {id \in WithIndentation :
                                Catalog[id].paragraphProps[1].indentation[1][f] # None})
               IN  IF first = None THEN None
                   ELSE Catalog[first[1]].paragraphProps[1].indentation[1][f]])
ChainParagraphProps(chain) ==
  IF FirstIn(chain, WithParagraphProps) = None THEN None
  ELSE Some([alignment |-> ChainAlignment(chain), indentation |-> ChainIndentation(chain)])
Loops(chain) ==
  chain # <<>> /\ Catalog[chain[Len(chain)]].basedOn \in Tokens(chain)

\* C15: resolving a style id for numbering, paragraph properties and run
\* properties returns, for every catalog (basedOn chains that loop or lead
\* to unknown ids included), the properties merged along the chain of
\* styles from the id up to the first unknown or already visited one, the
\* nearer style winning; an unknown starting id resolves to undefined.
C15_StyleResolution ==
  resolved # None =>
    \E chain \in {ChainFrom(resolved[1].styleId, {})} :
      /\ resolved[1].numbering = ChainNumbering(chain)
      /\ resolved[1].paragraphProps = ChainParagraphProps(chain)
      /\ resolved[1].runProperties =
           IF ChainRunProperties(chain) = EmptyProps THEN None
           ELSE Some(ChainRunProperties(chain))
      /\ resolved[1].styleId \notin DOMAIN Catalog =>
           /\ resolved[1].numbering = NoNumbering
           /\ resolved[1].paragraphProps = None
           /\ resolved[1].runProperties = None

\* C15 witness: a resolved id whose chain runs through all three styles and
\* loops back, with properties of the farthest style in the result.
C15_Witness ==
  /\ resolved # None
  /\ Len(ChainFrom(resolved[1].styleId, {})) = 3
  /\ Loops(ChainFrom(resolved[1].styleId, {}))
  /\ resolved[1].runProperties # None
  /\ resolved[1].runProperties[1]["bold"] # Undefined
  /\ resolved[1].runProperties[1]["italic"] # Undefined
  /\ resolved[1].runProperties[1]["color"] # Undefined


(***************************************************************************)
(* Body walk and tables (SpecTable).                                       *)
(***************************************************************************)
Html == content[1].html
IsContentChild(element) == element.kind \in {"p", "tbl"}
BodyContent == SelectSeq(Body, IsContentChild)
TagOf(element) == IF element.kind = "tbl" THEN "table" ELSE "p"
IsEmptyParagraph(element) ==
  element.kind = "p" /\ element.runs = <<>> /\ element.numbering.numId = Undefined
AppendedBlocks == {i \in 1..Len(Html) : Html[i].tag \in {"footnotes", "endnotes"}}
InOrder(n) ==
  \A i \in 1..n :
    /\ Html[i].tag = TagOf(BodyContent[i])
    /\ IsEmptyParagraph(BodyContent[i]) =>
         Html[i] = [tag |-> "p", prefix |-> <<>>, content |-> <<>>]

\* C17, as stated: for a body with at least one paragraph or table child,
\* the emitted html has as many top-level elements as the body has
\* paragraph and table children, in the same order, an empty paragraph
\* giving an explicit empty element and other children nothing.
C17_AsStated ==
  Passed /\ BodyContent # <<>> =>
    /\ Len(Html) = Len(BodyContent)
    /\ InOrder(Len(BodyContent))

\* C17, amended: for a body with at least one paragraph or table child, the
\* emitted html holds, in order, one top-level element per paragraph or
\* table child of the body (an empty paragraph giving an explicit empty
\* element, other children nothing), followed only by the footnotes block
\* and the endnotes block when the document has notes to show.
C17_ElementPerChild ==
  Passed /\ BodyContent # <<>> =>
    /\ Len(Html) = Len(BodyContent) + Cardinality(AppendedBlocks)
    /\ InOrder(Len(BodyContent))
    /\ AppendedBlocks = (Len(BodyContent) + 1)..Len(Html)
    /\ Cardinality(AppendedBlocks) =
         (IF \E i \in 1..Len(Extracted.footnotes) : Extracted.footnotes[i].noteType = "normal"
          THEN 1 ELSE 0)
         + (IF \E i \in 1..Len(Extracted.endnotes) : Extracted.endnotes[i].noteType = "normal"
            THEN 1 ELSE 0)

\* C17 witness: after a pass, a body of an empty paragraph, a section
\* element and a table, emitted without notes as two elements.
C17_Witness ==
  /\ Passed /\ Len(Body) = 3
  /\ IsEmptyParagraph(Body[1]) /\ Body[2].kind = "sectPr" /\ Body[3].kind = "tbl"
  /\ Len(Html) = 2 /\ Html[1].content = <<>> /\ Html[2].tag = "table"

\* C20: in one pass every paragraph of the document, a child of the body or
\* inside a table cell (cells of nested tables included), is transformed
\* once: the counter of a list has advanced once per paragraph numbered in
\* it and each paragraph's text occurs once in the html.
Occurrences(tokens, tok) == Cardinality({i \in 1..Len(tokens) : tokens[i] = tok})
HtmlTokens ==
  Flatten([i \in 1..Len(Html) |->
             IF Html[i].tag \in {"p", "table"} THEN Html[i].prefix \o Html[i].content
             ELSE <<>>])
NumberedIn(paragraphs, numId) ==
  Cardinality({i \in 1..Len(paragraphs) : paragraphs[i].numbering.numId = numId})
C20_TransformedOnce ==
  Passed =>
    /\ getOrCreateCounter(counters, "1").counters[0]
         = DefaultStart + NumberedIn(BodyParagraphs(Body), "1")
    /\ Occurrences(HtmlTokens, "y") = NumberedIn(BodyParagraphs(Body), "1")


(***************************************************************************)
(* Concurrent parses (SpecConc).                                           *)
(***************************************************************************)
Done(d) == jobs[d].stage = "done"
Numbered(r) ==
  /\ r.transformedContent # None
  /\ \E i \in 1..Len(r.transformedContent[1].html) :
       r.transformedContent[1].html[i].prefix # <<>>

C18_NoDuplicateDocuments ==
  \A i, j \in 1..Len(hook.documents) :
    i # j => ~(/\ hook.documents[i].name = hook.documents[j].name
               /\ hook.documents[i].size = hook.documents[j].size)

\* C19: once removeDocument(id) has been called, the document is not in
\* documents and no comment of the global list has documentId = id, in that
\* state and every later one.
C19_RemovedStaysRemoved ==
  \A id \in hook.removed :
    /\ \A i \in 1..Len(hook.documents) : hook.documents[i].id # id
    /\ \A i \in 1..Len(hook.comments) : hook.comments[i].documentId # id


(***************************************************************************)
(* Effective numbering (SpecList).                                         *)
(***************************************************************************)
\* The numbering reference a paragraph's style implies: that of the nearest
\* style of the basedOn chain that declares a list id.
StyleImplied(pStyle) ==
  LET first == FirstIn(ChainFrom(pStyle, {}),
                       {id \in DOMAIN Catalog : /\ Catalog[id].hasNumbering
                                                /\ Catalog[id].numbering.numId # Undefined})
  IN  IF first = None THEN NoNumbering ELSE Catalog[first[1]].numbering
EffectiveOf(p) ==
  IF p.numbering.numId # Undefined THEN p.numbering ELSE StyleImplied(p.pStyle)
\* The counters after the first n paragraphs, each incrementing the counter
\* of its effective list instance at its effective level.
RECURSIVE CountersAfter(_)
CountersAfter(n) ==
  IF n = 0 THEN createNumberingCounters
  ELSE LET before == CountersAfter(n - 1)
           effective == EffectiveOf(Body[n])
       IN  IF effective.numId = Undefined THEN before
           ELSE MapSet(before, effective.numId,
                       incrementCounter(getOrCreateCounter(before, effective.numId),
                                        effective.ilvl).counter)

\* C21: for every paragraph the effective numbering is the reference (list
\* id and level) declared on the paragraph itself when it has one, and
\* otherwise that of the nearest style of the paragraph style's basedOn
\* chain that declares one; a paragraph is rendered with a marker exactly
\* when it has an effective numbering, and the counters a pass leaves are
\* those of one increment per paragraph at its effective list and level.
C21_EffectiveNumbering ==
  Passed =>
    /\ \A i \in 1..Len(Body) :
         (Html[i].prefix # <<>>) <=> (EffectiveOf(Body[i]).numId # Undefined)
    /\ counters = CountersAfter(Len(Body))


(***************************************************************************)
(* Fallback markers (SpecFallback).                                        *)
(***************************************************************************)
Definitions == parseNumberingDefinitions(TRUE, pkg.parts["numbering"].payload)
\* The paragraph's list has no definition, or none for the paragraph's level.
Undefined22(p) ==
  /\ p.numbering.numId # Undefined
  /\ \/ p.numbering.numId \notin DOMAIN Definitions
     \/ p.numbering.ilvl \notin DOMAIN Definitions[p.numbering.numId].levels
\* How many of the first i paragraphs are level-0 paragraphs of list numId.
RankIn(numId, i) ==
  Cardinality({j \in 1..i : Body[j].numbering = [numId |-> numId, ilvl |-> 0]})

\* C22: a level-0 paragraph of a list that has no numbering definition, or
\* no definition for level 0, is rendered with the plain decimal marker
\* "k." where k counts the level-0 paragraphs of that list up to and
\* including it in the pass; paragraphs of deeper levels or of other lists
\* in between do not change the sequence.
C22_DecimalFallback ==
  Passed =>
    \A i \in 1..Len(Body) :
      Undefined22(Body[i]) /\ Body[i].numbering.ilvl = 0 =>
        Html[i].prefix = <<ToString(RankIn(Body[i].numbering.numId, i)), ".", " ">>

\* C22 witness: three level-0 paragraphs of a list without a level-0
\* definition, rendered 1., 2., 3..
C22_Witness ==
  /\ Passed /\ Len(Body) = 3
  /\ \A i \in 1..3 : Body[i].numbering = [numId |-> "3", ilvl |-> 0]
  /\ \A i \in 1..3 : Html[i].prefix = <<ToString(i), ".", " ">>


(***************************************************************************)
(* Level-text templates (SpecTemplate).                                    *)
(***************************************************************************)
LevelsOf(numId) == Definitions[numId].levels
\* The level a placeholder names, when it names one of 0..level.
PlaceholderLevels(tok, level) == {k \in 0..level : tok = "%" \o ToString(k + 1)}
\* The template with each placeholder of a level up to `level` replaced by
\* that level's counter value in that level's kind.
Rendered(template, values, level, levels) ==
  [t \in 1..Len(template) |->
     IF PlaceholderLevels(template[t], level) = {} THEN template[t]
     ELSE LET k == CHOOSE k \in PlaceholderLevels(template[t], level) : TRUE
          IN  getNumberingText(values[k], levels[k].numFmt)]

\* C23: the marker of a paragraph at level L of a defined list is the
\* level's template with every placeholder %k, 1 <= k <= L+1, replaced by
\* the current counter value of level k-1 in that level's numbering kind;
\* the rest of the template is unchanged and no such placeholder is left
\* in the marker.
C23_LevelText ==
  Passed =>
    \A i \in 1..Len(Body) :
      \E level \in {Body[i].numbering.ilvl}, values \in {CountersAfter(i)["1"].counters} :
        /\ Html[i].prefix =
             Rendered(LevelsOf("1")[level].lvlText, values, level, LevelsOf("1")) \o <<" ">>
        /\ \A k \in 0..level : ~Includes(Html[i].prefix, Placeholder(k))


(***************************************************************************)
(* Paragraph alignment and indentation (SpecIndent).                       *)
(***************************************************************************)
ParagraphFields == {"alignment", "left", "right", "firstLine"}
\* What each layer of the paragraph declares, highest precedence first:
\* its own pPr, the level of its list, its style, the style's parent.
ParagraphLayers ==
  <<StyleParagraphProps(Body[1])>>
  \o (IF EffectiveOf(Body[1]).numId \in DOMAIN Definitions
      THEN <<LevelsOf(EffectiveOf(Body[1]).numId)[EffectiveOf(Body[1]).ilvl].paragraphProps>>
      ELSE <<>>)
  \o [i \in 1..Len(ChainFrom(Body[1].pStyle, {})) |->
        Catalog[ChainFrom(Body[1].pStyle, {})[i]].paragraphProps]
FieldOf(parsed, f) ==
  IF parsed = None THEN None
  ELSE IF f = "alignment"
       THEN (IF parsed[1].alignment = Undefined THEN None ELSE Some(parsed[1].alignment))
  ELSE IndentOf(parsed[1].indentation, f)
SettingField(layers, f) == {i \in 1..Len(layers) : FieldOf(layers[i], f) # None}
HighestSetting(layers, f) ==
  IF SettingField(layers, f) = {} THEN None
  ELSE FieldOf(layers[Highest(SettingField(layers, f))], f)
\* The declaration of a field in the paragraph's style attribute.
StyleOf(block) == IF "style" \in DOMAIN block THEN block.style ELSE <<>>
PropertyOf(f) ==
  CASE f = "alignment" -> "text-align:" [] f = "left" -> "margin-left:"
    [] f = "right" -> "margin-right:" [] OTHER -> "text-indent:"
DeclaredIn(style, f) ==
  IF \E i \in 1..(Len(style) - 1) : style[i] = PropertyOf(f)
  THEN Some(style[1 + CHOOSE i \in 1..(Len(style) - 1) : style[i] = PropertyOf(f)])
  ELSE None
TextOf(value, f) ==
  IF value = None THEN None
  ELSE IF f = "alignment" THEN value
  ELSE Some(ToString(twipsToPixels(value[1])) \o "px")

\* C24: the effective alignment and each of the indentation fields left,
\* right and firstLine of a paragraph are taken, each field on its own,
\* from the highest layer that sets the field, in the order the
\* paragraph's own properties, the level of its effective numbering, its
\* style resolved through basedOn; a field no layer sets is not emitted.
C24_ParagraphLayers ==
  Passed =>
    \E layers \in {ParagraphLayers}, style \in {StyleOf(Html[1])} :
      \A f \in ParagraphFields :
        DeclaredIn(style, f) = TextOf(HighestSetting(layers, f), f)

\* C24 witness: a paragraph whose four fields come from four different
\* layers: left (0) from its own pPr, firstLine from the list level,
\* alignment from its style and right from the style's parent.
C24_Witness ==
  /\ Passed
  /\ Len(ParagraphLayers) = 4
  /\ StyleOf(Html[1]) = <<"text-align:", "justify", ";", "margin-left:", "0px", ";",
                          "margin-right:", "4px", ";", "text-indent:", "2px">>


(***************************************************************************)
(* Revision detection (SpecRevision).                                      *)
(***************************************************************************)
Detected == revision # None /\ revision[1].called
NodePath == revision[1].path
Wrappers == {i \in 1..Len(NodePath) : NodePath[i].tagName \in DOMAIN RevisionTags}
Nearest == NodePath[CHOOSE i \in Wrappers : \A j \in Wrappers : i <= j]

\* C25: extractRevisionInfo(node) returns, for every node, the revision of
\* the nearest element among the node and its ancestors that is an
\* insertion, deletion, move-source or move-target wrapper (the innermost
\* of nested wrappers), and returns none exactly when neither the node nor
\* any ancestor up to the root is such a wrapper.
C25_NearestWrapper ==
  Detected =>
    /\ (revision[1].returned = None) <=> (Wrappers = {})
    /\ Wrappers # {} =>
         revision[1].returned =
           Some([type |-> RevisionTags[Nearest.tagName], id |-> Nearest.id])

\* C25 witness: a run inside an insertion that lies inside another
\* insertion inside a deletion; the call returned the inner insertion.
C25_Witness ==
  /\ Detected
  /\ Len(NodePath) = 4
  /\ NodePath[1].tagName = "w:r"
  /\ NodePath[2] = Element("w:ins", "2") /\ NodePath[3] = Element("w:ins", "1")
  /\ NodePath[4].tagName = "del"
  /\ revision[1].returned = Some([type |-> "insertion", id |-> "2"])


(***************************************************************************)
(* Comments with an unknown parent (SpecOrphan).                           *)
(***************************************************************************)
\* The returned comments whose parentId is the paraId of no returned comment.
Orphans ==
  {a \in CommentIndexes :
     /\ Comments[a].parentId # Undefined
     /\ \A b \in CommentIndexes : Comments[b].paraId # Comments[a].parentId}
\* The package whose commentEx records for paraId name no parent.
WithoutParent(p, paraId) ==
  [p EXCEPT !.parts["commentsExtended"].payload =
     [i \in 1..Len(@) |-> IF @[i].paraId = paraId THEN [@[i] EXCEPT !.parent = ""] ELSE @[i]]]

\* C26: a comment whose parentId is the paraId of no returned comment is
\* kept in the result with its parentId, its paraId is in no comment's
\* children, the parse reports no error, and the children lists of all
\* comments are those of the same package with that parent reference
\* removed.
C26_OrphanComment ==
  Parsed =>
    /\ Len(Comments) = Len(pkg.parts["comments"].payload)
    /\ \A a \in Orphans :
         /\ result.error = Undefined
         /\ \A b \in CommentIndexes : Comments[a].paraId \notin Elements(Comments[b].children)
         /\ ChildrenLists(result) =
              ChildrenLists(parseDocxComments(WithoutParent(pkg, Comments[a].paraId),
                                              DocumentId).result)

\* C26 witness: a parsed package with an orphan comment and, next to it, a
\* comment that did receive a child.
C26_Witness ==
  /\ Parsed
  /\ Orphans # {}
  /\ \E b \in CommentIndexes : Comments[b].children # <<>>


(***************************************************************************)
(* Notes at the end of the document (SpecNotes).                           *)
(***************************************************************************)
\* The positions of the html's top-level blocks with a tag of the set.
BlocksTagged(tags) == {i \in 1..Len(Html) : Html[i].tag \in tags}
\* The note blocks inside the appended section of one kind.
SectionBlocks(tag) ==
  IF BlocksTagged({tag}) = {} THEN <<>>
  ELSE Html[CHOOSE i \in BlocksTagged({tag}) : TRUE].content
\* Blocks and notes agree one to one, in order, on id and content.
BlockPerNote(blocks, notes) ==
  /\ Len(blocks) = Len(notes)
  /\ \A i \in 1..Len(notes) :
       /\ blocks[i].prefix = <<OriginalId(notes[i]), ".">>
       /\ blocks[i].content = notes[i].content
SeparatorTypes == {"separator", "continuationSeparator"}
\* The raw notes of a part that are separators.
Separators(part) ==
  {i \in 1..Len(pkg.parts[part].payload) : pkg.parts[part].payload[i].type \in SeparatorTypes}
\* The ids of the anchors the body's blocks hold for one kind of note.
AnchorsIn(tokens, opening) ==
  {tokens[i + 1] : i \in {j \in 1..(Len(tokens) - 1) : tokens[j] = opening}}
BodyAnchors(opening) == AnchorsIn(HtmlTokens, opening)

\* C27: in the emitted html the body's blocks come first, then one block per
\* retained footnote in input order, then one block per retained endnote in
\* input order; a note of type separator or continuationSeparator is not
\* retained, gives no block and is the target of no anchor.
C27_NotesAppended ==
  Passed =>
    /\ \A i \in BlocksTagged({"p", "table"}), j \in BlocksTagged({"footnotes"}),
          k \in BlocksTagged({"endnotes"}) : i < j /\ j < k
    /\ \A i \in BlocksTagged({"p", "table"}), j \in BlocksTagged({"footnotes", "endnotes"}) :
         i < j
    /\ BlockPerNote(SectionBlocks("footnotes"), Extracted.footnotes)
    /\ BlockPerNote(SectionBlocks("endnotes"), Extracted.endnotes)
    /\ \A part \in {"footnotes", "endnotes"} :
         /\ Len(Extracted[part]) + Cardinality(Separators(part)) <= Len(pkg.parts[part].payload)
         /\ \A n \in 1..Len(Extracted[part]) : Extracted[part][n].noteType \notin SeparatorTypes
    /\ BodyAnchors("<sup footnote-ref>") \subseteq NoteIds(Extracted.footnotes)
    /\ BodyAnchors("<sup endnote-ref>") \subseteq NoteIds(Extracted.endnotes)



\* The anchors of one kind all have a block of the section of that kind, with
\* the anchor's id and the content of the retained note of that id.
AnchorsResolve(opening, tag, notes) ==
  \A id \in BodyAnchors(opening) :
    \E i \in 1..Len(SectionBlocks(tag)), n \in 1..Len(notes) :
      /\ SectionBlocks(tag)[i].prefix = <<id, ".">>
      /\ OriginalId(notes[n]) = id
      /\ SectionBlocks(tag)[i].content = notes[n].content

\* C30: every footnote or endnote anchor in the body of the html of a parsed
\* package targets a note block that is in the appended footnotes or endnotes
\* section, and that block is the note of the referenced id.
C30_AnchorsResolve ==
  Passed =>
    /\ AnchorsResolve("<sup footnote-ref>", "footnotes", Extracted.footnotes)
    /\ AnchorsResolve("<sup endnote-ref>", "endnotes", Extracted.endnotes)



(***************************************************************************)
(* Processing state of uploaded documents (SpecProcessing).                *)
(***************************************************************************)
\* The listed document of an id, when there is one.
Listed(id) == {i \in 1..Len(hook.documents) : hook.documents[i].id = id}
Accepted == {RandomUUID(n) : n \in 1..hook.uploads}
ParseSettled(id) == id \in DOMAIN hook.settled
\* The parse of the document reported an error or threw.
ParseFailed(id) == hook.settled[id].threw \/ hook.settled[id].error # Undefined
\* A listed document is in the processing state until its parse settles and
\* out of it in every state after that (a settled parse stays settled), with
\* an error exactly when the parse failed.
ProcessingFollowsParse ==
  \A id \in Accepted : \A i \in Listed(id) :
    IF ParseSettled(id)
    THEN /\ ~hook.documents[i].isProcessing
         /\ hook.documents[i].processingError # Undefined <=> ParseFailed(id)
    ELSE /\ hook.documents[i].isProcessing
         /\ hook.documents[i].processingError = Undefined
InProcessing(id) == \E i \in Listed(id) : hook.documents[i].isProcessing

\* C28: a document accepted by addDocument is listed with isProcessing = true
\* until its parse settles; from then on, while it is listed, isProcessing is
\* false and processingError is set exactly when the parse reported an error
\* or threw; and no document stays in the processing state forever.
C28_ProcessingEnds ==
  /\ []ProcessingFollowsParse
  /\ \A id \in UploadIds : InProcessing(id) ~> ~InProcessing(id)
\* Two documents are listed, one whose parse threw and one whose parse
\* returned, both out of the processing state.
C28_Witness ==
  /\ \E id \in Accepted :
       ParseSettled(id) /\ Listed(id) # {} /\ hook.settled[id].threw
  /\ \E id \in Accepted :
       ParseSettled(id) /\ Listed(id) # {} /\ ~hook.settled[id].threw



(***************************************************************************)
(* Comment selection (SpecSelection).                                      *)
(***************************************************************************)
\* C29: in the state React renders after any sequence of setSelectedComment,
\* selectComment, deselectComment, toggleCommentSelection and
\* clearSelectedComments calls, selectedCommentId is null exactly when
\* selectedCommentIds is empty, it is otherwise one of selectedCommentIds,
\* and selectedCommentIds holds no id twice.
C29_SelectionConsistent ==
  hook.calls = 0 =>
    /\ hook.selectedCommentId = Undefined <=> hook.selectedCommentIds = <<>>
    /\ hook.selectedCommentId # Undefined =>
         hook.selectedCommentId \in Range(hook.selectedCommentIds)
    /\ \A i, j \in 1..Len(hook.selectedCommentIds) :
         i # j => hook.selectedCommentIds[i] # hook.selectedCommentIds[j]

====
